---- MODULE Spec2Model ----
(***************************************************************************)
(* Model of the SQL -> TypeScript schema extractor (nglmercer/SQLTYPE):    *)
(* the statement extractor (SQLParser), the field parser (FieldParser),    *)
(* the table extractor (TableExtractor) and the validation gate they call. *)
(*                                                                         *)
(* Text is a sequence of one-character strings.  The regular expressions   *)
(* of the source are written as pattern trees and run by a backtracking    *)
(* matcher with the priorities of the JavaScript engine (leftmost start,   *)
(* alternatives in order, greedy or lazy repetition).  Every regular       *)
(* expression of the source that holds letters carries the i flag, so a    *)
(* literal character is compared case-insensitively.                       *)
(***************************************************************************)
EXTENDS Integers, Sequences, FiniteSets, TLC

VARIABLES
    arg,            \* the argument prepared for the next call
    op,             \* the operation that ran last ("none" before any call)
    out,            \* the outcome of the call that ran last
    createIdx,      \* SQLParser.CREATE_TABLE_REGEX.lastIndex
    constraintIdx,  \* TableExtractor.TABLE_CONSTRAINT_PATTERNS.*.lastIndex
    gateIdx,        \* lastIndex of DANGEROUS_SQL_PATTERNS / MALFORMED_SQL_PATTERNS
    entry,          \* the lastIndex values with which the last call began
    mapper,         \* the TypeMapper of the caller
    heap            \* the objects that the caller and its TypeMappers share

vars == <<arg, op, out, createIdx, constraintIdx, gateIdx, entry, mapper, heap>>

----------------------------------------------------------------------------
(* Characters                                                              *)

\* the backtick, which a string of this language cannot hold
BQ == "backtick"

LowerCase == <<"a","b","c","d","e","f","g","h","i","j","k","l","m",
               "n","o","p","q","r","s","t","u","v","w","x","y","z">>

UpperCase == <<"A","B","C","D","E","F","G","H","I","J","K","L","M",
               "N","O","P","Q","R","S","T","U","V","W","X","Y","Z">>

Digits == {"0","1","2","3","4","5","6","7","8","9"}

LowerSet == {LowerCase[i] : i \in DOMAIN LowerCase}

UpperSet == {UpperCase[i] : i \in DOMAIN UpperCase}

\* String.prototype.toUpperCase on one character
UpperChar(c) ==
    IF c \in LowerSet
    THEN UpperCase[CHOOSE i \in DOMAIN LowerCase : LowerCase[i] = c]
    ELSE c

\* \s of the regular expressions (the white space the texts here hold)
IsSpace(c) == c \in {" ", "\n", "\t", "\r", "\f"}

\* \w of the regular expressions
IsWord(c) == c \in LowerSet \cup UpperSet \cup Digits \cup {"_"}

\* the character classes the patterns of the source use
ClassHas(name, c) ==
    CASE name = "s"        -> IsSpace(c)
      [] name = "S"        -> ~IsSpace(c)
      [] name = "w"        -> IsWord(c)
      [] name = "d"        -> c \in Digits
      [] name = "wdash"    -> IsWord(c) \/ c = "-"
      [] name = "dot"      -> c \notin {"\n", "\r"}
      [] name = "alpha"    -> c \in LowerSet \cup UpperSet
      [] name = "hex"      -> c \in Digits \cup {"a","b","c","d","e","f","A","B","C","D","E","F"}
      [] name = "bqw"      -> c = BQ \/ IsWord(c)
      [] name = "notBq"    -> c # BQ
      [] name = "notDq"    -> c # "\""
      [] name = "notSq"    -> c # "'"
      [] name = "notGt"    -> c # ">"
      [] name = "notParen" -> c \notin {"(", ")"}
      [] name = "notClose" -> c # ")"
      [] name = "quote"    -> c \in {"'", "\""}
      [] name = "notQuote" -> c \notin {"'", "\""}
      [] name = "notQB"    -> c \notin {"'", "\"", "\\"}
      [] name = "notSC"    -> ~IsSpace(c) /\ c # ","
      [] name = "slash"    -> c \in {"/", "\\"}
      [] name = "wdashus"  -> IsWord(c) \/ c \in {"_", "-"}
      [] OTHER             -> FALSE

----------------------------------------------------------------------------
(* Pattern trees: a regular expression of the source is written as the     *)
(* tree of its syntax                                                      *)

Ch(c)       == [k |-> "ch", v |-> c]
Set(name)   == [k |-> "set", v |-> name]
Word(cs)    == [k |-> "lit", v |-> cs]
Empty       == [k |-> "empty"]
Star(p)     == [k |-> "star", v |-> p]
Lazy(p)     == [k |-> "lazy", v |-> p]
Plus(p)     == [k |-> "plus", v |-> p]
Opt(p)      == [k |-> "opt", v |-> p]
Grp(n, p)   == [k |-> "grp", v |-> p, n |-> n]
AtLeast(n, p) == [k |-> "atleast", v |-> p, n |-> n]
Bol         == [k |-> "bol"]
Eol         == [k |-> "eol"]
WordB       == [k |-> "wb"]
NotBehind(ps) == [k |-> "nlb", v |-> ps]
NotAhead(p) == [k |-> "nla", v |-> p]

RECURSIVE Cat(_)
\* the concatenation of the patterns ps, as a balanced tree of pairs
Cat(ps) ==
    IF Len(ps) = 0 THEN Empty
    ELSE IF Len(ps) = 1 THEN ps[1]
    ELSE [k |-> "seq", a |-> Cat(SubSeq(ps, 1, Len(ps) \div 2)),
          b |-> Cat(SubSeq(ps, Len(ps) \div 2 + 1, Len(ps)))]

RECURSIVE Alt(_)
\* the alternation of the patterns ps in their order, as a balanced tree of pairs
Alt(ps) ==
    IF Len(ps) = 1 THEN ps[1]
    ELSE [k |-> "or", a |-> Alt(SubSeq(ps, 1, Len(ps) \div 2)),
          b |-> Alt(SubSeq(ps, Len(ps) \div 2 + 1, Len(ps)))]

----------------------------------------------------------------------------
(* The matcher. A state of a match is [pos, caps, b]: the position reached  *)
(* (1-based), the capture groups set so far and the position the match      *)
(* started at. The matcher computes, for a pattern and a list of states in  *)
(* the order in which the backtracking engine of JavaScript would try them, *)
(* the list of the states in which the pattern can end, in that same order: *)
(* the first state of the list of the whole pattern is the engine's match.  *)

\* number of capture groups any pattern of the source has at most
NGroups == 5

NoCaps == [i \in 1..NGroups |-> [s |-> 0, e |-> 0]]

\* the value v under the name that F gives it
With(v, F(_)) == F(v)

\* one character of the text against a one-character pattern
CharOk(p, c) ==
    IF p.k = "ch" THEN UpperChar(c) = UpperChar(p.v) ELSE ClassHas(p.v, c)

IsWordAt(s, i) == i >= 1 /\ i <= Len(s) /\ IsWord(s[i])

\* the literal cs stands at position pos of s, letter case ignored
LitAt(cs, s, pos) ==
    /\ pos + Len(cs) - 1 <= Len(s)
    /\ \A i \in 1..Len(cs) : UpperChar(s[pos + i - 1]) = UpperChar(cs[i])

\* the sequence l without the repetitions of an earlier element
Dedup(l) ==
    LET keep == SelectSeq([i \in 1..Len(l) |-> i],
                          LAMBDA i : \A j \in 1..(i - 1) : l[j] # l[i])
    IN <<>> \o [k \in 1..Len(keep) |-> l[keep[k]]]

RECURSIVE Concat(_, _, _)
\* ll[lo] \o ... \o ll[hi]
Concat(ll, lo, hi) ==
    IF lo = hi THEN ll[lo]
    ELSE Concat(ll, lo, (lo + hi) \div 2) \o Concat(ll, (lo + hi) \div 2 + 1, hi)

\* the concatenation of the sequences of the sequence ll, in order
Flatten(ll) ==
    LET ne == SelectSeq(ll, LAMBDA x : x # <<>>)
    IN IF Len(ne) = 0 THEN <<>> ELSE Concat(ne, 1, Len(ne))

\* how many characters from position pos on match the one-character pattern p
Run(p, s, pos) ==
    CHOOSE n \in 0..(Len(s) - pos + 1) :
        \A i \in 0..n : (i < n) = (pos + i <= Len(s) /\ CharOk(p, s[pos + i]))

\* the ends of at least min repetitions of the one-character pattern p from
\* st: the longest first when greedy, the shortest first when not
RunEnds(p, s, st, min, greedy) ==
    With(Run(p, s, st.pos),
         LAMBDA n : IF n < min THEN <<>>
                    ELSE <<>> \o [i \in 1..(n - min + 1) |->
                                    [st EXCEPT !.pos = IF greedy THEN st.pos + n + 1 - i
                                                        ELSE st.pos + min + i - 1]])

\* the states l, each moved n characters on
Advance(l, n) == <<>> \o [i \in 1..Len(l) |-> [l[i] EXCEPT !.pos = @ + n]]

\* group n opens at the position of each state
Enter(n, l) ==
    <<>> \o [i \in 1..Len(l) |-> [l[i] EXCEPT !.caps[n] = [s |-> l[i].pos, e |-> 0]]]

\* group n closes at the position of each state
Exit(n, l) == <<>> \o [i \in 1..Len(l) |-> [l[i] EXCEPT !.caps[n].e = l[i].pos]]

\* the states of l that are past position pos (an iteration that matches the
\* empty text ends the repetition)
Moved(l, pos) == SelectSeq(l, LAMBDA x : x.pos > pos)

\* one state at each position of s from from on, marked with its position
Probes(s, from) ==
    <<>> \o [i \in 1..(Len(s) + 2 - from) |->
               [pos |-> from + i - 1, caps |-> NoCaps, b |-> from + i - 1]]

\* the ends past q, in order, that the probe at q has among r
EndsFrom(r, q) ==
    LET hit == SelectSeq(r, LAMBDA x : x.b = q /\ x.pos > q)
    IN <<>> \o [i \in 1..Len(hit) |-> hit[i].pos]

RECURSIVE StarTable(_, _, _, _)
\* T[q] for the positions q of lo..hi, from the last down, is the list of the
\* positions at which a greedy repetition from q can end, in the order in which
\* they are tried, when r are the ends of its body from every position: the
\* ends of the repetition from each end of the body in turn, then q itself
StarTable(r, lo, hi, T) ==
    IF lo = hi
    THEN LET e == EndsFrom(r, lo)
         IN [T EXCEPT ![lo] =
                IF Len(e) = 0 THEN <<lo>>
                ELSE IF Len(e) = 1 THEN Append(T[e[1]], lo)
                ELSE Append(Dedup(Flatten([i \in 1..Len(e) |-> T[e[i]]])), lo)]
    ELSE LET mid   == (lo + hi) \div 2
             right == StarTable(r, mid + 1, hi, T)
         IN IF Len(right) = 0 THEN right ELSE StarTable(r, lo, mid, right)

\* the least position of the states sts
FirstPos(sts) ==
    CHOOSE q \in {sts[i].pos : i \in 1..Len(sts)} : \A i \in 1..Len(sts) : q <= sts[i].pos

\* the states sts, each moved to the ends that the table T has for its position
TableEnds(sts, T) ==
    Dedup(Flatten([i \in 1..Len(sts) |->
                      <<>> \o [j \in 1..Len(T[sts[i].pos]) |->
                                 [sts[i] EXCEPT !.pos = T[sts[i].pos][j]]]]))

\* the least number of repetitions of a repetition
MinReps(p) == CASE p.k = "plus" -> 1 [] p.k = "atleast" -> p.n [] OTHER -> 0

\* a repetition of a one-character pattern
IsRun(p) == p.k \in {"star", "plus", "lazy", "atleast"} /\ p.v.k \in {"ch", "set"}

RECURSIVE Many(_, _, _)

\* the ends of the greedy repetition of the pattern body from the states sts,
\* of which the body takes at least one further, when r are the ends of the
\* body from every position: from each state, those of one more iteration
\* first, the state itself last.  A body that sets no group ends at the same
\* positions whatever the state, and the ends of the repetition are read off
\* one table of positions.
StarFrom(body, s, sts, r) ==
    IF \A i \in 1..Len(r) : r[i].caps = NoCaps
    THEN TableEnds(sts, StarTable(r, FirstPos(sts), Len(s) + 1,
                                  [q \in 1..(Len(s) + 1) |-> <<>>]))
    ELSE Dedup(Flatten([i \in 1..Len(sts) |->
             Many([k |-> "star", v |-> body], s,
                  Moved(Many(body, s, <<sts[i]>>), sts[i].pos)) \o <<sts[i]>>]))

\* the ends of the pattern p on the text s from the states sts
Many(p, s, sts) ==
    IF sts = <<>> THEN <<>>
    ELSE CASE p.k \in {"ch", "set", "nlb"} ->
           IF p.k = "nlb"
           THEN SelectSeq(sts, LAMBDA st :
                    ~(/\ st.pos - Len(p.v) >= 1
                      /\ \A i \in 1..Len(p.v) :
                            CharOk(p.v[i], s[st.pos - Len(p.v) + i - 1])))
           ELSE Advance(SelectSeq(sts, LAMBDA st :
                            st.pos <= Len(s) /\ CharOk(p, s[st.pos])), 1)
      [] p.k = "lit" -> Advance(SelectSeq(sts, LAMBDA st : LitAt(p.v, s, st.pos)), Len(p.v))
      [] p.k = "seq" -> Many(p.b, s, Many(p.a, s, sts))
      [] p.k \in {"or", "opt"} ->
           Flatten([i \in 1..Len(sts) |->
                       Many(IF p.k = "or" THEN p.a ELSE p.v, s, <<sts[i]>>)
                       \o (IF p.k = "or" THEN Many(p.b, s, <<sts[i]>>) ELSE <<sts[i]>>)])
      [] p.k = "empty" -> sts
      [] IsRun(p) ->
           Flatten([i \in 1..Len(sts) |->
                       RunEnds(p.v, s, sts[i], MinReps(p), p.k # "lazy")])
      [] p.k = "star" /\ ~IsRun(p) ->
           IF Many(p.v, s, sts) = <<>> THEN sts
           ELSE StarFrom(p.v, s, sts, Many(p.v, s, Probes(s, FirstPos(sts))))
      [] p.k = "plus" /\ ~IsRun(p) ->
           Many([k |-> "star", v |-> p.v], s, Many(p.v, s, sts))
      [] p.k = "grp" -> Exit(p.n, Many(p.v, s, Enter(p.n, sts)))
      [] p.k = "bol" -> SelectSeq(sts, LAMBDA st : st.pos = 1)
      [] p.k = "eol" -> SelectSeq(sts, LAMBDA st : st.pos = Len(s) + 1)
      [] p.k = "wb" ->
           SelectSeq(sts, LAMBDA st : IsWordAt(s, st.pos - 1) # IsWordAt(s, st.pos))
      [] p.k = "nla" -> SelectSeq(sts, LAMBDA st : Many(p.v, s, <<st>>) = <<>>)
      [] OTHER -> <<>>

\* no match
NoMatch == [start |-> 0, pos |-> 0, caps |-> NoCaps]

\* the match that the ends r hold: the first of them
First(r) ==
    IF r = <<>> THEN NoMatch
    ELSE [start |-> r[1].b, pos |-> r[1].pos, caps |-> r[1].caps]

\* RegExp.prototype.exec from the 1-based position from: the match at the
\* leftmost start, which ends at pos - 1; start = 0 when there is none.
Search(p, s, from) == First(Many(p, s, Probes(s, from)))

\* the text of capture group n of a match; <<>> for a group that took no part
Cap(s, m, n) ==
    IF m.caps[n].e = 0 THEN <<>> ELSE SubSeq(s, m.caps[n].s, m.caps[n].e - 1)

\* RegExp.prototype.test of a pattern without the g flag
Test(p, s) == Search(p, s, 1).start # 0

----------------------------------------------------------------------------
(* String helpers                                                          *)

\* the least element of a non-empty set of integers
Least(S) == CHOOSE x \in S : \A y \in S : x <= y

\* the greatest element of a non-empty set of integers
Greatest(S) == CHOOSE x \in S : \A y \in S : x >= y

\* String.prototype.trim
Trim(s) ==
    LET ink == {i \in DOMAIN s : ~IsSpace(s[i])}
    IN IF ink = {} THEN <<>> ELSE SubSeq(s, Least(ink), Greatest(ink))

\* String.prototype.toUpperCase
ToUpper(s) == [i \in DOMAIN s |-> UpperChar(s[i])]

\* String.prototype.startsWith
StartsWith(s, pre) == Len(s) >= Len(pre) /\ SubSeq(s, 1, Len(pre)) = pre

\* String.prototype.endsWith
EndsWith(s, suf) ==
    Len(s) >= Len(suf) /\ SubSeq(s, Len(s) - Len(suf) + 1, Len(s)) = suf

\* String.prototype.includes for one character
Includes(s, c) == \E i \in DOMAIN s : s[i] = c

\* the characters of s at the indices that keep(i) holds for, in order
Keep(s, keep(_)) ==
    LET idx == SelectSeq([i \in 1..Len(s) |-> i], keep)
    IN [k \in 1..Len(idx) |-> s[idx[k]]]

----------------------------------------------------------------------------
(* Keywords                                                                *)

KwCREATE == <<"C","R","E","A","T","E">>
KwTABLE == <<"T","A","B","L","E">>
KwIF == <<"I","F">>
KwNOT == <<"N","O","T">>
KwEXISTS == <<"E","X","I","S","T","S">>
KwENGINE == <<"E","N","G","I","N","E">>
KwDEFAULT == <<"D","E","F","A","U","L","T">>
KwCHARSET == <<"C","H","A","R","S","E","T">>
KwCOLLATE == <<"C","O","L","L","A","T","E">>
KwAUTO_INCREMENT == <<"A","U","T","O","_","I","N","C","R","E","M","E","N","T">>
KwCOMMENT == <<"C","O","M","M","E","N","T">>
KwNULL == <<"N","U","L","L">>
KwPRIMARY == <<"P","R","I","M","A","R","Y">>
KwKEY == <<"K","E","Y">>
KwFOREIGN == <<"F","O","R","E","I","G","N">>
KwUNIQUE == <<"U","N","I","Q","U","E">>
KwINDEX == <<"I","N","D","E","X">>
KwCONSTRAINT == <<"C","O","N","S","T","R","A","I","N","T">>
KwCHECK == <<"C","H","E","C","K">>
KwREFERENCES == <<"R","E","F","E","R","E","N","C","E","S">>
KwUNSIGNED == <<"U","N","S","I","G","N","E","D">>
KwSIGNED == <<"S","I","G","N","E","D">>
KwZEROFILL == <<"Z","E","R","O","F","I","L","L">>
KwDROP == <<"D","R","O","P">>
KwDELETE == <<"D","E","L","E","T","E">>
KwUPDATE == <<"U","P","D","A","T","E">>
KwALTER == <<"A","L","T","E","R">>
KwINSERT == <<"I","N","S","E","R","T">>
KwINTO == <<"I","N","T","O">>
KwUNION == <<"U","N","I","O","N">>
KwSELECT == <<"S","E","L","E","C","T">>
KwON == <<"O","N">>
KwScriptOpen == <<"<","s","c","r","i","p","t">>
KwScriptClose == <<"<","/","s","c","r","i","p","t",">">>
KwPRIMARY_KEY == <<"P","R","I","M","A","R","Y"," ","K","E","Y">>
KwFOREIGN_KEY == <<"F","O","R","E","I","G","N"," ","K","E","Y">>

\* \s* and \s+
Ws0 == Star(Set("s"))
Ws1 == Plus(Set("s"))

----------------------------------------------------------------------------
(* The validation gate (src/utils/validation.ts)                           *)

\* DEFAULT_VALIDATION_LIMITS
maxSqlLength == 52428800
maxTableCount == 1000
maxFieldCount == 500

\* the count ceilings of DEFAULT_VALIDATION_LIMITS
DEFAULT_VALIDATION_LIMITS ==
    [maxTableCount |-> maxTableCount, maxFieldCount |-> maxFieldCount]

\* createValidationLimits(partialLimits): { ...DEFAULT_VALIDATION_LIMITS, ...partialLimits }
createValidationLimits(partialLimits) ==
    [k \in DOMAIN DEFAULT_VALIDATION_LIMITS |->
        IF k \in DOMAIN partialLimits THEN partialLimits[k]
        ELSE DEFAULT_VALIDATION_LIMITS[k]]

\* DANGEROUS_SQL_PATTERNS, in the order of the array
DANGEROUS_SQL_PATTERNS == <<
    \* /;\s*(DROP|DELETE|UPDATE|ALTER)\s+/gi
    Cat(<<Ch(";"), Ws0,
          Grp(1, Alt(<<Word(KwDROP), Word(KwDELETE), Word(KwUPDATE), Word(KwALTER)>>)),
          Ws1>>),
    \* /;\s*INSERT\s+(?!INTO\s+[`\w]+\s*\()/gi
    Cat(<<Ch(";"), Ws0, Word(KwINSERT), Ws1,
          NotAhead(Cat(<<Word(KwINTO), Ws1, Plus(Set("bqw")), Ws0, Ch("(")>>))>>),
    \* /\bUNION\b.*\bSELECT\b/gi
    Cat(<<WordB, Word(KwUNION), WordB, Star(Set("dot")), WordB, Word(KwSELECT), WordB>>),
    \* /<script[^>]*>.*?<\/script>/gi
    Cat(<<Word(KwScriptOpen), Star(Set("notGt")), Ch(">"), Lazy(Set("dot")),
          Word(KwScriptClose)>>),
    \* /(\||\$\(|\$\{)/g
    Grp(1, Alt(<<Ch("|"), Cat(<<Ch("$"), Ch("(")>>), Cat(<<Ch("$"), Ch("{")>>)>>)),
    \* /&(?![a-zA-Z]+;)/g
    Cat(<<Ch("&"), NotAhead(Cat(<<Plus(Set("alpha")), Ch(";")>>))>>),
    \* /\/\*.*\.\.[\/\\].*\*\//gi
    Cat(<<Ch("/"), Ch("*"), Star(Set("dot")), Ch("."), Ch("."), Set("slash"),
          Star(Set("dot")), Ch("*"), Ch("/")>>),
    \* /0x[0-9a-f]{16,}/gi
    Cat(<<Ch("0"), Ch("x"), AtLeast(16, Set("hex"))>>),
    \* /\/\*.*\*\/.*\b(DROP|DELETE|UPDATE|UNION|SELECT)\b/gi
    Cat(<<Ch("/"), Ch("*"), Star(Set("dot")), Ch("*"), Ch("/"), Star(Set("dot")), WordB,
          Grp(1, Alt(<<Word(KwDROP), Word(KwDELETE), Word(KwUPDATE), Word(KwUNION),
                       Word(KwSELECT)>>)),
          WordB>>) >>

\* MALFORMED_SQL_PATTERNS, in the order of the array
MALFORMED_SQL_PATTERNS == <<
    \* /\({10,}/g
    AtLeast(10, Ch("(")),
    \* /CREATE\s+TABLE\s+\w+\s*;?\s*$/gi
    Cat(<<Word(KwCREATE), Ws1, Word(KwTABLE), Ws1, Plus(Set("w")), Ws0, Opt(Ch(";")),
          Ws0, Eol>>) >>

\* the two arrays as validateSqlInput runs through them
GatePatterns == DANGEROUS_SQL_PATTERNS \o MALFORMED_SQL_PATTERNS

NDangerous == Len(DANGEROUS_SQL_PATTERNS)

\* the control characters /[\x00-\x08\x0B\x0C\x0E-\x1F\x7F]/ among the text's characters
IsControl(c) == c = "\f"

\* one turn of the loop of hasUnmatchedDelimiters, at index i (1-based), on the
\* state d = [paren, sq, dq, bq, bad]; bad is the early "return true"
DelimStep(sql, i, d) ==
    LET char     == sql[i]
        prevChar == IF i > 1 THEN sql[i - 1] ELSE ""
    IN
    IF d.bad \/ prevChar = "\\" THEN d
    ELSE
      LET q == IF char = "'" /\ ~d.dq /\ ~d.bq THEN [d EXCEPT !.sq = ~@]
               ELSE IF char = "\"" /\ ~d.sq /\ ~d.bq THEN [d EXCEPT !.dq = ~@]
               ELSE IF char = BQ /\ ~d.sq /\ ~d.dq THEN [d EXCEPT !.bq = ~@]
               ELSE d
      IN
      IF ~q.sq /\ ~q.dq /\ ~q.bq
      THEN IF char = "(" THEN [q EXCEPT !.paren = @ + 1]
           ELSE IF char = ")"
                THEN [q EXCEPT !.paren = @ - 1, !.bad = (q.paren - 1 < 0)]
                ELSE q
      ELSE q

RECURSIVE ScanDelimiters(_, _, _, _)
\* the loop of hasUnmatchedDelimiters over the indices lo..hi, from state d
ScanDelimiters(sql, lo, hi, d) ==
    IF lo > hi THEN d
    ELSE IF lo = hi THEN DelimStep(sql, lo, d)
    ELSE LET mid  == (lo + hi) \div 2
             left == ScanDelimiters(sql, lo, mid, d)
         IN IF left.bad THEN left ELSE ScanDelimiters(sql, mid + 1, hi, left)

DelimStart == [paren |-> 0, sq |-> FALSE, dq |-> FALSE, bq |-> FALSE, bad |-> FALSE]

hasUnmatchedDelimiters(sql) ==
    With(ScanDelimiters(sql, 1, Len(sql), DelimStart),
         LAMBDA d : d.bad \/ d.paren # 0 \/ d.sq \/ d.dq \/ d.bq)

\* pattern.lastIndex = 0; pattern.test(sql) for each pattern of the gate
GateTests(sql) ==
    <<>> \o [i \in 1..Len(GatePatterns) |-> Search(GatePatterns[i], sql, 0 + 1)]

\* the two "for (const pattern of ...)" loops of validateSqlInput: each
\* pattern's lastIndex is set to 0 and the pattern tested; the first that
\* matches (hit, 0 when none does) throws and keeps the lastIndex of its match,
\* and the patterns after it keep the lastIndex they had.
RunGate(sql, idx) ==
    With(GateTests(sql), LAMBDA m :
    With(IF \A i \in 1..Len(m) : m[i].start = 0 THEN 0
         ELSE Least({i \in 1..Len(m) : m[i].start # 0}), LAMBDA hit :
      [hit |-> hit,
       idx |-> [i \in 1..Len(m) |->
                   IF hit = 0 \/ i < hit THEN 0
                   ELSE IF i = hit THEN m[i].pos - 1
                   ELSE idx[i]]]))

CountControl(sql) == Cardinality({i \in DOMAIN sql : IsControl(sql[i])})

\* /CREATE\s+TABLE/gi, a fresh literal at each evaluation
CreateTableWords == Cat(<<Word(KwCREATE), Ws1, Word(KwTABLE)>>)

\* validateSqlInput(sql): err = "" when it returns, else the SQLParseError it
\* throws; idx is the lastIndex of the gate's patterns afterwards.
validateSqlInput(a, idx) ==
    IF a.t \in {"null", "undefined"}
    THEN [err |-> "SQL input cannot be null or undefined", idx |-> idx]
    ELSE IF a.t # "string"
    THEN [err |-> "SQL input must be a string", idx |-> idx]
    ELSE IF Len(a.s) = 0
    THEN [err |-> "SQL input cannot be empty", idx |-> idx]
    ELSE IF Len(a.s) > maxSqlLength
    THEN [err |-> "SQL input too large", idx |-> idx]
    ELSE
      With(RunGate(a.s, idx), LAMBDA g :
      IF g.hit # 0 /\ g.hit <= NDangerous
      THEN [err |-> "SQL input contains potentially dangerous patterns", idx |-> g.idx]
      ELSE IF g.hit # 0
      THEN [err |-> "SQL input appears to be malformed or incomplete", idx |-> g.idx]
      ELSE IF hasUnmatchedDelimiters(a.s)
      THEN [err |-> "SQL input has unmatched parentheses, quotes, or backticks",
            idx |-> g.idx]
      ELSE IF CountControl(a.s) * 100 > Len(a.s)
      THEN [err |-> "SQL input contains excessive control characters", idx |-> g.idx]
      ELSE IF ~Test(CreateTableWords, a.s)
      THEN [err |-> "SQL input must contain at least one CREATE TABLE statement",
            idx |-> g.idx]
      ELSE [err |-> "", idx |-> g.idx])

\* whether index i of s lies in a run of four or more white-space characters
InLongRun(s, i) ==
    /\ IsSpace(s[i])
    /\ LET lo == Least({j \in 1..i : \A n \in j..i : IsSpace(s[n])})
           hi == Greatest({j \in i..Len(s) : \A n \in i..j : IsSpace(s[n])})
       IN hi - lo + 1 >= 4

\* replace(/\s{4,}/g, ' ')
SquashSpace(s) ==
    LET idx == SelectSeq([i \in 1..Len(s) |-> i],
                         LAMBDA i : ~InLongRun(s, i) \/ i = 1 \/ ~IsSpace(s[i - 1]))
    IN [n \in 1..Len(idx) |-> IF InLongRun(s, idx[n]) THEN " " ELSE s[idx[n]]]

\* replace(/\0/g, '') and replace(/[\x00-\x08\x0B\x0C\x0E-\x1F\x7F]/g, '')
DropControl(s) == SelectSeq(s, LAMBDA c : ~IsControl(c))

\* replace(/\r\n/g, '\n').replace(/\r/g, '\n')
NormalizeEol(s) ==
    LET idx == SelectSeq([i \in 1..Len(s) |-> i],
                         LAMBDA i : ~(s[i] = "\r" /\ i < Len(s) /\ s[i + 1] = "\n"))
    IN [n \in 1..Len(idx) |-> IF s[idx[n]] = "\r" THEN "\n" ELSE s[idx[n]]]

\* sanitizeSqlInput(sql)
sanitizeSqlInput(a) ==
    IF a.t # "string" \/ a.s = <<>> THEN <<>>
    ELSE Trim(NormalizeEol(DropControl(SquashSpace(a.s))))

\* validateTableCount(tableCount, limits): the SQLParseError it throws, "" when none
validateTableCount(tableCount, limits) ==
    IF tableCount < 0 THEN "Invalid table count"
    ELSE IF tableCount > limits.maxTableCount
    THEN "Table count exceeds maximum allowed count"
    ELSE ""

\* validateFieldCount(fieldCount, tableName, limits): the SQLParseError it
\* throws, "" when none
validateFieldCount(fieldCount, limits) ==
    IF fieldCount < 0 THEN "Invalid field count for table"
    ELSE IF fieldCount > limits.maxFieldCount
    THEN "Field count exceeds maximum allowed count"
    ELSE ""

----------------------------------------------------------------------------
(* The statement extractor: SQLParser                                      *)

\* /CREATE\s+TABLE\s+(?:IF\s+NOT\s+EXISTS\s+)?(?:`([^`]+)`|"([^"]+)"|(\w+))\s*\(
\*  ((?:[^()]|\([^)]*\))*)\)(?:\s*ENGINE\s*=\s*\w+)?(?:\s*DEFAULT\s+CHARSET\s*=\s*[\w\-]+)?
\*  (?:\s*COLLATE\s*=\s*[\w_\-]+)?(?:\s*AUTO_INCREMENT\s*=\s*\d+)?
\*  (?:\s*COMMENT\s*=\s*'[^']*')?;?/gi
CREATE_TABLE_REGEX ==
    Cat(<<Word(KwCREATE), Ws1, Word(KwTABLE), Ws1,
          Opt(Cat(<<Word(KwIF), Ws1, Word(KwNOT), Ws1, Word(KwEXISTS), Ws1>>)),
          Alt(<<Cat(<<Ch(BQ), Grp(1, Plus(Set("notBq"))), Ch(BQ)>>),
                Cat(<<Ch("\""), Grp(2, Plus(Set("notDq"))), Ch("\"")>>),
                Grp(3, Plus(Set("w")))>>),
          Ws0, Ch("("),
          Grp(4, Star(Alt(<<Set("notParen"),
                            Cat(<<Ch("("), Star(Set("notClose")), Ch(")")>>)>>))),
          Ch(")"),
          Opt(Cat(<<Ws0, Word(KwENGINE), Ws0, Ch("="), Ws0, Plus(Set("w"))>>)),
          Opt(Cat(<<Ws0, Word(KwDEFAULT), Ws1, Word(KwCHARSET), Ws0, Ch("="), Ws0,
                    Plus(Set("wdash"))>>)),
          Opt(Cat(<<Ws0, Word(KwCOLLATE), Ws0, Ch("="), Ws0, Plus(Set("wdashus"))>>)),
          Opt(Cat(<<Ws0, Word(KwAUTO_INCREMENT), Ws0, Ch("="), Ws0, Plus(Set("d"))>>)),
          Opt(Cat(<<Ws0, Word(KwCOMMENT), Ws0, Ch("="), Ws0, Ch("'"), Star(Set("notSq")),
                    Ch("'")>>)),
          Opt(Ch(";"))>>)

\* String.prototype.indexOf: the 0-based index of the first occurrence, or -1
IndexOf(s, sub) ==
    LET at == {i \in 1..(Len(s) - Len(sub) + 1) : SubSeq(s, i, i + Len(sub) - 1) = sub}
    IN IF at = {} THEN -1 ELSE Least(at) - 1

\* SQLParser.calculateLineNumber(sql, position): position is 0-based
calculateLineNumber(sql, position) ==
    IF position < 0 \/ position >= Len(sql) THEN 1
    ELSE Cardinality({i \in 1..position : sql[i] = "\n"}) + 1

\* parse without its reset: the loop starts where the last use of the shared
\* regular expression stopped
KeepLastIndex(li) == li

\* "this.CREATE_TABLE_REGEX.lastIndex = 0" before the match loop of parse
ParseResetLastIndex(li) == 0

\* "this.CREATE_TABLE_REGEX.lastIndex = 0" before the test of hasCreateTableStatements
HasCreateResetLastIndex(li) == 0

\* tables.unshift({...}) in place of the push: the latest statement first
UnshiftTable(tables, table) == <<table>> \o tables

\* tables.push({...}) in the loop of parse
PushTable(tables, table) == Append(tables, table)

\* match[1] || match[2] || match[3]
MatchedName(s, match) ==
    IF Cap(s, match, 1) # <<>> THEN Cap(s, match, 1)
    ELSE IF Cap(s, match, 2) # <<>> THEN Cap(s, match, 2)
    ELSE Cap(s, match, 3)

\* the line number that parse gives the table named tableName
LineNumberOf(sql, tableName) ==
    With(IndexOf(sql, tableName), LAMBDA originalMatch :
         IF originalMatch >= 0 THEN calculateLineNumber(sql, originalMatch) ELSE 1)

RECURSIVE ParseLoop(_, _, _, _)
\* the while loop of SQLParser.parse over the sanitized text, with the regular
\* expression's lastIndex li (0-based) and the tables pushed so far; table is
\* the table name that the message of a throw holds
ParseLoop(sanitizedSql, sql, li, tables) ==
    With(Search(CREATE_TABLE_REGEX, sanitizedSql, li + 1), LAMBDA match :
    IF match.start = 0 THEN [err |-> "", table |-> <<>>, tables |-> tables, idx |-> 0]
    ELSE
      With(MatchedName(sanitizedSql, match), LAMBDA tableName :
      With(Cap(sanitizedSql, match, 4), LAMBDA fieldsString :
      IF tableName = <<>>
      THEN [err |-> "Could not extract table name from CREATE TABLE statement",
            table |-> <<>>, tables |-> <<>>, idx |-> match.pos - 1]
      ELSE IF fieldsString = <<>>
      THEN [err |-> "No field definitions found for table",
            table |-> tableName, tables |-> <<>>, idx |-> match.pos - 1]
      ELSE ParseLoop(sanitizedSql, sql, match.pos - 1,
                     PushTable(tables,
                               [name |-> Trim(tableName),
                                fieldsString |-> Trim(fieldsString),
                                lineNumber |-> LineNumberOf(sql, tableName),
                                originalMatch |->
                                    SubSeq(sanitizedSql, match.start, match.pos - 1)])))))

\* parse without its check of an empty result
NeverNoTables(tables) == FALSE

\* "tables.length === 0" after the loop of parse
NoTablesFound(tables) == Len(tables) = 0

\* SQLParser.parse(sql) with CREATE_TABLE_REGEX.lastIndex = li and the gate's
\* lastIndex values gidx: err = "" and the tables, or the SQLParseError thrown;
\* idx and gidx are the lastIndex values it leaves.
SQLParser_parse(a, li, gidx) ==
    With(validateSqlInput(a, gidx), LAMBDA v :
    IF v.err # ""
    THEN [err |-> v.err, table |-> <<>>, tables |-> <<>>, idx |-> li, gidx |-> v.idx]
    ELSE
      With(ParseLoop(sanitizeSqlInput(a), a.s, ParseResetLastIndex(li), <<>>), LAMBDA r :
      IF r.err # ""
      THEN [err |-> r.err, table |-> r.table, tables |-> <<>>, idx |-> r.idx,
            gidx |-> v.idx]
      ELSE IF NoTablesFound(r.tables)
      THEN [err |-> "No CREATE TABLE statements found in the provided SQL",
            table |-> <<>>, tables |-> <<>>, idx |-> r.idx, gidx |-> v.idx]
      ELSE [err |-> "", table |-> <<>>, tables |-> r.tables, idx |-> r.idx,
            gidx |-> v.idx]))

\* "!sql" of JavaScript for the argument kinds modelled
Falsy(a) == a.t \in {"null", "undefined"} \/ (a.t = "string" /\ a.s = <<>>)

\* SQLParser.hasCreateTableStatements(sql) with CREATE_TABLE_REGEX.lastIndex = li
SQLParser_hasCreateTableStatements(a, li) ==
    IF Falsy(a) \/ a.t # "string" THEN [ret |-> FALSE, idx |-> li]
    ELSE
      With(Search(CREATE_TABLE_REGEX, sanitizeSqlInput(a),
                  HasCreateResetLastIndex(li) + 1), LAMBDA m :
           IF m.start # 0 THEN [ret |-> TRUE, idx |-> m.pos - 1]
           ELSE [ret |-> FALSE, idx |-> 0])

----------------------------------------------------------------------------
(* The field parser: FieldParser                                           *)

\* /^\s*(?:`([^`]+)`|"([^"]+)"|(\w+))\s+((?:\w+(?:\([^)]*\))?(?:\s*\[\])?
\*  (?:\s+(?:UNSIGNED|SIGNED|ZEROFILL))*)+)\s*(.*?)$/i
FIELD_DEFINITION_REGEX ==
    Cat(<<Bol, Ws0,
          Alt(<<Cat(<<Ch(BQ), Grp(1, Plus(Set("notBq"))), Ch(BQ)>>),
                Cat(<<Ch("\""), Grp(2, Plus(Set("notDq"))), Ch("\"")>>),
                Grp(3, Plus(Set("w")))>>),
          Ws1,
          Grp(4, Plus(Cat(<<Plus(Set("w")),
                            Opt(Cat(<<Ch("("), Star(Set("notClose")), Ch(")")>>)),
                            Opt(Cat(<<Ws0, Ch("["), Ch("]")>>)),
                            Star(Cat(<<Ws1, Alt(<<Word(KwUNSIGNED), Word(KwSIGNED),
                                                  Word(KwZEROFILL)>>)>>))>>))),
          Ws0, Grp(5, Lazy(Set("dot"))), Eol>>)

\* CONSTRAINT_PATTERNS.NOT_NULL: /\bNOT\s+NULL\b/i
PatNotNull == Cat(<<WordB, Word(KwNOT), Ws1, Word(KwNULL), WordB>>)

\* CONSTRAINT_PATTERNS.PRIMARY_KEY: /\bPRIMARY\s+KEY\b/i
PatPrimaryKey == Cat(<<WordB, Word(KwPRIMARY), Ws1, Word(KwKEY), WordB>>)

\* CONSTRAINT_PATTERNS.UNIQUE: /\bUNIQUE\b/i
PatUnique == Cat(<<WordB, Word(KwUNIQUE), WordB>>)

\* CONSTRAINT_PATTERNS.AUTO_INCREMENT: /\bAUTO_INCREMENT\b/i
PatAutoIncrement == Cat(<<WordB, Word(KwAUTO_INCREMENT), WordB>>)

\* CONSTRAINT_PATTERNS.FOREIGN_KEY: /\bREFERENCES\s+(\w+)\s*\(([^)]+)\)/i
PatForeignKey ==
    Cat(<<WordB, Word(KwREFERENCES), Ws1, Grp(1, Plus(Set("w"))), Ws0, Ch("("),
          Grp(2, Plus(Set("notClose"))), Ch(")")>>)

\* CONSTRAINT_PATTERNS.CHECK: /\bCHECK\s*\(([^)]+)\)/i
PatCheck ==
    Cat(<<WordB, Word(KwCHECK), Ws0, Ch("("), Grp(1, Plus(Set("notClose"))), Ch(")")>>)

\* CONSTRAINT_PATTERNS.COMMENT: /\bCOMMENT\s+['"]([^'"\\]*(?:\\.[^'"\\]*)*)['"]/i
PatComment ==
    Cat(<<WordB, Word(KwCOMMENT), Ws1, Set("quote"),
          Grp(1, Cat(<<Star(Set("notQB")),
                       Star(Cat(<<Ch("\\"), Set("dot"), Star(Set("notQB"))>>))>>)),
          Set("quote")>>)

\* /\bDEFAULT\s+/i of extractDefaultValue
PatDefault == Cat(<<WordB, Word(KwDEFAULT), Ws1>>)

\* /^(COMMENT|NOT\s+NULL|NULL|PRIMARY\s+KEY|UNIQUE|AUTO_INCREMENT|,|$)/i
PatDefaultEnd ==
    Cat(<<Bol, Grp(1, Alt(<<Word(KwCOMMENT), Cat(<<Word(KwNOT), Ws1, Word(KwNULL)>>),
                            Word(KwNULL), Cat(<<Word(KwPRIMARY), Ws1, Word(KwKEY)>>),
                            Word(KwUNIQUE), Word(KwAUTO_INCREMENT), Ch(","), Eol>>))>>)

\* /^(ON\s+UPDATE|COMMENT|NOT\s+NULL|NULL|PRIMARY\s+KEY|UNIQUE|AUTO_INCREMENT|,|$)/i
PatDefaultEndOrOn ==
    Cat(<<Bol, Grp(1, Alt(<<Cat(<<Word(KwON), Ws1, Word(KwUPDATE)>>),
                            Word(KwCOMMENT), Cat(<<Word(KwNOT), Ws1, Word(KwNULL)>>),
                            Word(KwNULL), Cat(<<Word(KwPRIMARY), Ws1, Word(KwKEY)>>),
                            Word(KwUNIQUE), Word(KwAUTO_INCREMENT), Ch(","), Eol>>))>>)

\* /^ON\s+UPDATE/i
PatOnUpdate == Cat(<<Bol, Word(KwON), Ws1, Word(KwUPDATE)>>)

\* /^ON\s+UPDATE\s+(\S+)/i
PatOnUpdateValue ==
    Cat(<<Bol, Word(KwON), Ws1, Word(KwUPDATE), Ws1, Grp(1, Plus(Set("S")))>>)

\* a scan that takes no character for a quote
NoQuoteChar(c) == FALSE

\* char === '"' || char === "'" || char === '`'
IsQuoteChar(c) == c \in {"\"", "'", BQ}

\* the state of the scan of splitFieldDefinitions before its first character
SplitStart ==
    [definitions |-> <<>>, currentDef |-> <<>>, parenDepth |-> 0,
     inQuotes |-> FALSE, quoteChar |-> ""]

\* one turn of the for loop of splitFieldDefinitions, at index i (1-based)
SplitStep(fieldsString, i, st) ==
    LET char     == fieldsString[i]
        prevChar == IF i > 1 THEN fieldsString[i - 1] ELSE ""
        q == IF IsQuoteChar(char) /\ prevChar # "\\"
             THEN IF ~st.inQuotes
                  THEN [st EXCEPT !.inQuotes = TRUE, !.quoteChar = char]
                  ELSE IF char = st.quoteChar
                       THEN [st EXCEPT !.inQuotes = FALSE, !.quoteChar = ""]
                       ELSE st
             ELSE st
        d == IF ~q.inQuotes
             THEN IF char = "(" THEN [q EXCEPT !.parenDepth = @ + 1]
                  ELSE IF char = ")" THEN [q EXCEPT !.parenDepth = @ - 1]
                  ELSE q
             ELSE q
    IN IF ~d.inQuotes /\ d.parenDepth = 0 /\ char = ","
       THEN [d EXCEPT !.definitions = Append(@, Trim(d.currentDef)),
                      !.currentDef = <<>>]
       ELSE [d EXCEPT !.currentDef = Append(@, char)]

RECURSIVE SplitScan(_, _, _, _)
\* the for loop of splitFieldDefinitions over the indices lo..hi, from state st
SplitScan(fieldsString, lo, hi, st) ==
    IF lo > hi THEN st
    ELSE IF lo = hi THEN SplitStep(fieldsString, lo, st)
    ELSE LET left == SplitScan(fieldsString, lo, (lo + hi) \div 2, st)
         IN IF left.parenDepth # left.parenDepth + 1 \* the first half comes first
            THEN SplitScan(fieldsString, (lo + hi) \div 2 + 1, hi, left) ELSE left

\* splitFieldDefinitions without the test of its last definition: what follows
\* the last comma is pushed even when it is blank
splitKeepingLast(fieldsString) ==
    With(SplitScan(fieldsString, 1, Len(fieldsString), SplitStart), LAMBDA st :
         Append(st.definitions, Trim(st.currentDef)))

\* FieldParser.splitFieldDefinitions(fieldsString)
splitFieldDefinitions(fieldsString) ==
    With(SplitScan(fieldsString, 1, Len(fieldsString), SplitStart), LAMBDA st :
         IF Trim(st.currentDef) # <<>>
         THEN Append(st.definitions, Trim(st.currentDef))
         ELSE st.definitions)

\* a classification that takes no definition for a table-level constraint
NeverTableLevel(definition) == FALSE

\* FieldParser.isTableLevelConstraint(definition)
isTableLevelConstraint(definition) ==
    LET trimmed == ToUpper(Trim(definition))
    IN \/ StartsWith(trimmed, KwPRIMARY_KEY)
       \/ StartsWith(trimmed, KwFOREIGN_KEY)
       \/ StartsWith(trimmed, KwUNIQUE)
       \/ StartsWith(trimmed, KwINDEX)
       \/ StartsWith(trimmed, KwKEY)
       \/ StartsWith(trimmed, KwCONSTRAINT)
       \/ StartsWith(trimmed, KwCHECK)

\* FieldParser.parseConstraints(constraintsString)
parseConstraints(constraintsString) ==
    (IF Test(PatPrimaryKey, constraintsString)
     THEN <<[type |-> "PRIMARY_KEY", value |-> <<>>]>> ELSE <<>>)
    \o (IF Test(PatUnique, constraintsString)
        THEN <<[type |-> "UNIQUE", value |-> <<>>]>> ELSE <<>>)
    \o (IF Test(PatAutoIncrement, constraintsString)
        THEN <<[type |-> "AUTO_INCREMENT", value |-> <<>>]>> ELSE <<>>)
    \o With(Search(PatForeignKey, constraintsString, 1), LAMBDA foreignKeyMatch :
         IF foreignKeyMatch.start # 0
         THEN <<[type |-> "FOREIGN_KEY",
                 value |-> Cap(constraintsString, foreignKeyMatch, 1) \o <<"(">>
                           \o Cap(constraintsString, foreignKeyMatch, 2) \o <<")">>]>>
         ELSE <<>>)
    \o With(Search(PatCheck, constraintsString, 1), LAMBDA checkMatch :
         IF checkMatch.start # 0 /\ Cap(constraintsString, checkMatch, 1) # <<>>
         THEN <<[type |-> "CHECK", value |-> Cap(constraintsString, checkMatch, 1)]>>
         ELSE <<>>)

\* determineNullability without its test of PRIMARY KEY
nullableUnlessNotNull(constraintsString) == ~Test(PatNotNull, constraintsString)

\* FieldParser.determineNullability(constraintsString)
determineNullability(constraintsString) ==
    IF Test(PatNotNull, constraintsString) THEN FALSE
    ELSE IF Test(PatPrimaryKey, constraintsString) THEN FALSE
    ELSE TRUE

\* the state of the scan of extractDefaultValue before its first character
DefaultStart ==
    [defaultValue |-> <<>>, inQuotes |-> FALSE, quoteChar |-> "", parenCount |-> 0,
     done |-> FALSE]

\* one turn of the while loop of extractDefaultValue at index i (1-based);
\* done records the break
DefaultStep(cs, i, st) ==
    LET char     == cs[i]
        prevChar == IF i > 1 THEN cs[i - 1] ELSE ""
        add      == [st EXCEPT !.defaultValue = Append(@, char)]
    IN
    IF st.done THEN st
    ELSE IF ~st.inQuotes /\ char \in {"\"", "'"}
    THEN [add EXCEPT !.inQuotes = TRUE, !.quoteChar = char]
    ELSE IF st.inQuotes /\ char = st.quoteChar /\ prevChar # "\\"
    THEN [add EXCEPT !.inQuotes = FALSE, !.quoteChar = ""]
    ELSE IF st.inQuotes THEN add
    ELSE IF char = "(" THEN [add EXCEPT !.parenCount = @ + 1]
    ELSE IF char = ")"
    THEN LET remaining == Trim(SubSeq(cs, i + 1, Len(cs)))
         IN [add EXCEPT !.parenCount = @ - 1,
                        !.done = /\ st.parenCount - 1 = 0
                                 /\ Includes(add.defaultValue, "(")
                                 /\ Test(PatDefaultEnd, remaining)]
    ELSE IF st.parenCount = 0
    THEN IF IsSpace(char)
         THEN LET remaining == Trim(SubSeq(cs, i, Len(cs)))
              IN IF Test(PatDefaultEndOrOn, remaining)
                 THEN IF Test(PatOnUpdate, remaining)
                      THEN With(Search(PatOnUpdateValue, remaining, 1),
                                LAMBDA onUpdateMatch :
                           IF onUpdateMatch.start # 0
                           THEN [st EXCEPT !.defaultValue =
                                     @ \o <<" ", "O", "N", " ", "U", "P", "D", "A", "T", "E", " ">>
                                       \o Cap(remaining, onUpdateMatch, 1),
                                   !.done = TRUE]
                           ELSE st)
                      ELSE [st EXCEPT !.done = TRUE]
                 ELSE add
         ELSE add
    ELSE add

RECURSIVE DefaultScan(_, _, _, _)
\* the while loop of extractDefaultValue over the indices lo..hi, from state st
DefaultScan(cs, lo, hi, st) ==
    IF lo > hi THEN st
    ELSE IF lo = hi THEN DefaultStep(cs, lo, st)
    ELSE LET mid  == (lo + hi) \div 2
             left == DefaultScan(cs, lo, mid, st)
         IN IF left.done THEN left ELSE DefaultScan(cs, mid + 1, hi, left)

\* String.prototype.slice(1, -1)
Slice1(s) == SubSeq(s, 2, Len(s) - 1)

\* the end of extractDefaultValue: the value without the quotes around it,
\* when it is quoted and holds no space
Unquoted(defaultValue) ==
    LET quoted(q) == /\ StartsWith(defaultValue, <<q>>) /\ EndsWith(defaultValue, <<q>>)
                     /\ ~Includes(Slice1(defaultValue), " ")
    IN IF quoted("'") \/ quoted("\"") THEN Slice1(defaultValue) ELSE defaultValue

\* FieldParser.extractDefaultValue(constraintsString); def = FALSE is undefined
extractDefaultValue(constraintsString) ==
    With(Search(PatDefault, constraintsString, 1), LAMBDA defaultMatch :
         IF defaultMatch.start = 0 THEN [def |-> FALSE, v |-> <<>>]
         ELSE [def |-> TRUE,
               v |-> Unquoted(Trim(DefaultScan(constraintsString, defaultMatch.pos,
                                               Len(constraintsString),
                                               DefaultStart).defaultValue))])

\* String.prototype.replace(/\\q/g, q) for a quote character q
Unescape(s, q) ==
    Keep(s, LAMBDA i : ~(s[i] = "\\" /\ i < Len(s) /\ s[i + 1] = q))

\* FieldParser.extractComment(constraintsString); def = FALSE is undefined
extractComment(constraintsString) ==
    With(Search(PatComment, constraintsString, 1), LAMBDA match :
         IF match.start # 0 /\ Cap(constraintsString, match, 1) # <<>>
         THEN [def |-> TRUE,
               v |-> Unescape(Unescape(Cap(constraintsString, match, 1), "'"), "\"")]
         ELSE [def |-> FALSE, v |-> <<>>])

NoField ==
    [name |-> <<>>, type |-> <<>>, nullable |-> TRUE,
     defaultValue |-> [def |-> FALSE, v |-> <<>>], constraints |-> <<>>,
     comment |-> [def |-> FALSE, v |-> <<>>]]

\* "comment: comment || undefined" of parseField
CommentOrUndefined(comment) ==
    IF comment.def /\ comment.v # <<>> THEN comment ELSE [def |-> FALSE, v |-> <<>>]

\* the return statement of parseField
FieldOf(fieldName, fieldType, constraintsString) ==
    [name |-> Trim(fieldName), type |-> Trim(fieldType),
     nullable |-> determineNullability(constraintsString),
     defaultValue |-> extractDefaultValue(constraintsString),
     constraints |-> parseConstraints(constraintsString),
     comment |-> CommentOrUndefined(extractComment(constraintsString))]

\* FieldParser.parseField(fieldDefinition): err = "" when it returns a field,
\* else the message of the SQLParseError it throws
parseField(fieldDefinition) ==
    With(Trim(fieldDefinition), LAMBDA trimmedDef :
    IF fieldDefinition = <<>>
    THEN [err |-> "Invalid field definition: must be a non-empty string", field |-> NoField]
    ELSE IF trimmedDef = <<>>
    THEN [err |-> "Empty field definition", field |-> NoField]
    ELSE IF isTableLevelConstraint(trimmedDef)
    THEN [err |-> "Table-level constraint found where field definition expected",
          field |-> NoField]
    ELSE
      With(Search(FIELD_DEFINITION_REGEX, trimmedDef, 1), LAMBDA match :
      With(MatchedName(trimmedDef, match), LAMBDA fieldName :
      With(Cap(trimmedDef, match, 4), LAMBDA fieldType :
      IF match.start = 0
      THEN [err |-> "Could not parse field definition", field |-> NoField]
      ELSE IF fieldName = <<>>
      THEN [err |-> "Could not extract field name", field |-> NoField]
      ELSE IF fieldType = <<>>
      THEN [err |-> "Could not extract field type", field |-> NoField]
      ELSE [err |-> "",
            field |-> FieldOf(fieldName, fieldType, Cap(trimmedDef, match, 5))]))))

\* the definitions that the for loop of parseFields hands to parseField, in order
FieldDefinitionsOf(fieldsString) ==
    SelectSeq(splitFieldDefinitions(fieldsString),
              LAMBDA d : Trim(d) # <<>> /\ ~isTableLevelConstraint(Trim(d)))

\* the values i + 1 of the for loop of parseFields at which it calls parseField:
\* the places among the split definitions of those that are not skipped
FieldPositionsOf(fieldsString) ==
    With(splitFieldDefinitions(fieldsString), LAMBDA defs :
         SelectSeq([i \in 1..Len(defs) |-> i],
                   LAMBDA i : Trim(defs[i]) # <<>> /\ ~isTableLevelConstraint(Trim(defs[i]))))

\* the first member of a sequence of outcomes that is a throw
FirstThrow(outcomes) == Least({i \in 1..Len(outcomes) : outcomes[i].err # ""})

\* the outcome of the for loop of parseFields, parsed being the outcomes of
\* parseField on the definitions in order and positions their values of
\* i + 1: the throw of the first that fails, with i + 1 as the line of the
\* SQLParseError (0 stands for a line left undefined).  The messages leave
\* out the number and the name that the source puts into them.
FieldsOf(parsed, positions) ==
    IF \E i \in 1..Len(parsed) : parsed[i].err # ""
    THEN [err |-> "Error parsing field: " \o parsed[FirstThrow(parsed)].err,
          line |-> positions[FirstThrow(parsed)],
          fields |-> <<>>]
    ELSE [err |-> "", line |-> 0,
          fields |-> <<>> \o [i \in 1..Len(parsed) |-> parsed[i].field]]

\* FieldParser.parseFields(fieldsString): err = "" when it returns the fields,
\* else the message of the SQLParseError it throws
parseFields(fieldsString) ==
    IF fieldsString = <<>>
    THEN [err |-> "Invalid fields string: must be a non-empty string", line |-> 0,
          fields |-> <<>>]
    ELSE With(FieldDefinitionsOf(fieldsString), LAMBDA defs :
              FieldsOf(<<>> \o [i \in 1..Len(defs) |-> parseField(Trim(defs[i]))],
                       FieldPositionsOf(fieldsString)))

----------------------------------------------------------------------------
(* The extractor: TableExtractor                                           *)

\* (?:^|\s|,)\s* at the head of each of TABLE_CONSTRAINT_PATTERNS
ClauseLead == Cat(<<Alt(<<Bol, Set("s"), Ch(",")>>), Ws0>>)

\* \s*\(([^)]+)\) with the group numbered n
ParenList(n) == Cat(<<Ws0, Ch("("), Grp(n, Plus(Set("notClose"))), Ch(")")>>)

\* TABLE_CONSTRAINT_PATTERNS.PRIMARY_KEY:
\* /(?:^|\s|,)\s*(?:CONSTRAINT\s+\w+\s+)?PRIMARY\s+KEY\s*\(([^)]+)\)/gi
TC_PRIMARY_KEY ==
    Cat(<<ClauseLead,
          Opt(Cat(<<Word(KwCONSTRAINT), Ws1, Plus(Set("w")), Ws1>>)),
          Word(KwPRIMARY), Ws1, Word(KwKEY), ParenList(1)>>)

\* TABLE_CONSTRAINT_PATTERNS.FOREIGN_KEY:
\* /(?:^|\s|,)\s*(?:CONSTRAINT\s+(\w+)\s+)?FOREIGN\s+KEY\s*\(([^)]+)\)\s+
\*  REFERENCES\s+(\w+)\s*\(([^)]+)\)/gi
TC_FOREIGN_KEY ==
    Cat(<<ClauseLead,
          Opt(Cat(<<Word(KwCONSTRAINT), Ws1, Grp(1, Plus(Set("w"))), Ws1>>)),
          Word(KwFOREIGN), Ws1, Word(KwKEY), ParenList(2), Ws1,
          Word(KwREFERENCES), Ws1, Grp(3, Plus(Set("w"))), ParenList(4)>>)

\* TABLE_CONSTRAINT_PATTERNS.UNIQUE:
\* /(?:^|\s|,)\s*(?:CONSTRAINT\s+(\w+)\s+)?UNIQUE(?:\s+KEY\s+(\w+))?\s*\(([^)]+)\)/gi
TC_UNIQUE ==
    Cat(<<ClauseLead,
          Opt(Cat(<<Word(KwCONSTRAINT), Ws1, Grp(1, Plus(Set("w"))), Ws1>>)),
          Word(KwUNIQUE),
          Opt(Cat(<<Ws1, Word(KwKEY), Ws1, Grp(2, Plus(Set("w")))>>)),
          ParenList(3)>>)

\* (?<!UNIQUE\s): the seven characters before the position are not UNIQUE and
\* one whitespace character
NotAfterUnique ==
    NotBehind(<<Ch("U"), Ch("N"), Ch("I"), Ch("Q"), Ch("U"), Ch("E"), Set("s")>>)

\* TABLE_CONSTRAINT_PATTERNS.INDEX:
\* /(?:^|\s|,)\s*(?:(?<!UNIQUE\s)KEY|INDEX)\s+(\w+)\s*\(([^)]+)\)/gi
TC_INDEX ==
    Cat(<<ClauseLead,
          Alt(<<Cat(<<NotAfterUnique, Word(KwKEY)>>), Word(KwINDEX)>>),
          Ws1, Grp(1, Plus(Set("w"))), ParenList(2)>>)

\* the statement this.TABLE_CONSTRAINT_PATTERNS.X.lastIndex = 0 before each loop
ConstraintResetLastIndex(li) == 0

RECURSIVE ExecAll(_, _, _)
\* while ((match = p.exec(s)) !== null) from lastIndex li: the matches in order
ExecAll(p, s, li) ==
    With(Search(p, s, li + 1), LAMBDA match :
         IF li > Len(s) \/ match.start = 0 THEN <<>>
         ELSE <<match>> \o ExecAll(p, s, match.pos - 1))

\* String.prototype.split(c) for one character c
Split(s, c) ==
    LET at   == SelectSeq([i \in 1..Len(s) |-> i], LAMBDA i : s[i] = c)
        cuts == <<0>> \o at \o <<Len(s) + 1>>
    IN [k \in 1..(Len(at) + 1) |-> SubSeq(s, cuts[k] + 1, cuts[k + 1] - 1)]

\* the map callback of parseFieldList
CleanField(field) ==
    With(Trim(field), LAMBDA cleanField :
         IF \E q \in {BQ, "\"", "'"} :
               StartsWith(cleanField, <<q>>) /\ EndsWith(cleanField, <<q>>)
         THEN Trim(Slice1(cleanField))
         ELSE Trim(cleanField))

\* TableExtractor.parseFieldList(fieldList)
parseFieldList(fieldList) ==
    IF fieldList = <<>> THEN <<>>
    ELSE With(Split(fieldList, ","), LAMBDA parts :
              SelectSeq([k \in 1..Len(parts) |-> CleanField(parts[k])],
                        LAMBDA f : Len(f) > 0))

NoReference == [table |-> <<>>, fields |-> <<>>]

\* one while loop of extractTableConstraints on the pattern p, whose
\* lastIndex is li: the matches whose groups ns are all non-empty (the if of
\* its body), in order.  The loop runs until exec returns null, which leaves
\* the lastIndex of the pattern 0.
Taken(p, fieldsString, li, ns) ==
    SelectSeq(ExecAll(p, fieldsString, ConstraintResetLastIndex(li)),
              LAMBDA m : \A n \in ns : Cap(fieldsString, m, n) # <<>>)

\* the constraints that one loop of extractTableConstraints pushes for its
\* matches ms, with the column list in group n
Pushed(type, fieldsString, ms, n) ==
    <<>> \o [k \in 1..Len(ms) |->
               [type |-> type, fields |-> parseFieldList(Cap(fieldsString, ms[k], n)),
                reference |->
                    IF type = "FOREIGN_KEY"
                    THEN [table |-> Cap(fieldsString, ms[k], 3),
                          fields |-> parseFieldList(Cap(fieldsString, ms[k], 4))]
                    ELSE NoReference]]

\* TableExtractor.extractTableConstraints(fieldsString) with the lastIndex of
\* the four patterns in cidx
extractTableConstraints(fieldsString, cidx) ==
    Pushed("PRIMARY_KEY", fieldsString,
           Taken(TC_PRIMARY_KEY, fieldsString, cidx[1], {1}), 1)
    \o Pushed("FOREIGN_KEY", fieldsString,
              Taken(TC_FOREIGN_KEY, fieldsString, cidx[2], {2, 3, 4}), 2)
    \o Pushed("UNIQUE", fieldsString,
              Taken(TC_UNIQUE, fieldsString, cidx[3], {3}), 3)
    \o Pushed("INDEX", fieldsString,
              Taken(TC_INDEX, fieldsString, cidx[4], {1, 2}), 2)

\* TableExtractor.extractTableSchema(rawTable): err = "" when it returns
extractTableSchema(rawTable, cidx) ==
    With(parseFields(rawTable.fieldsString), LAMBDA parsed :
         IF parsed.err # "" THEN [err |-> parsed.err, table |-> <<>>]
         ELSE [err |-> "",
               table |-> [name |-> rawTable.name, fields |-> parsed.fields,
                          constraints |->
                              extractTableConstraints(rawTable.fieldsString, cidx)]])

\* the for loop of extractTables on one raw table: the schema, then
\* validateFieldCount on its fields
SchemaOf(rawTable, cidx) ==
    With(extractTableSchema(rawTable, cidx), LAMBDA schema :
         IF schema.err # "" THEN schema
         ELSE [schema EXCEPT !.err = validateFieldCount(Len(schema.table.fields),
                                                          DEFAULT_VALIDATION_LIMITS)])

\* the outcome of the for loop of extractTables, schemas being the outcomes
\* on the raw tables rawTables in order: the throw of the first that fails,
\* which names its table and has the line number of that table as its line
TablesOf(schemas, rawTables, idx, gidx) ==
    IF \E i \in 1..Len(schemas) : schemas[i].err # ""
    THEN [err |-> "Error extracting table: " \o schemas[FirstThrow(schemas)].err,
          table |-> rawTables[FirstThrow(schemas)].name,
          line |-> rawTables[FirstThrow(schemas)].lineNumber,
          tables |-> <<>>, idx |-> idx, gidx |-> gidx]
    ELSE [err |-> "", table |-> <<>>, line |-> 0,
          tables |-> <<>> \o [i \in 1..Len(schemas) |-> schemas[i].table],
          idx |-> idx, gidx |-> gidx]

\* TableExtractor.extractTables(sql) with the lastIndex of CREATE_TABLE_REGEX
\* in li, of the gate's patterns in gidx and of TABLE_CONSTRAINT_PATTERNS in
\* cidx: err = "" when it returns tables, else the message of the
\* SQLParseError it throws; idx and gidx are the lastIndex values afterwards
TableExtractor_extractTables(a, li, gidx, cidx) ==
    IF Falsy(a) \/ a.t # "string"
    THEN [err |-> "Invalid SQL input: must be a non-empty string",
          table |-> <<>>, line |-> 0, tables |-> <<>>, idx |-> li, gidx |-> gidx]
    ELSE
      With(SQLParser_parse(a, li, gidx), LAMBDA raw :
      IF raw.err # ""
      THEN [err |-> raw.err, table |-> raw.table, line |-> 0, tables |-> <<>>,
            idx |-> raw.idx, gidx |-> raw.gidx]
      ELSE IF validateTableCount(Len(raw.tables), DEFAULT_VALIDATION_LIMITS) # ""
      THEN [err |-> validateTableCount(Len(raw.tables), DEFAULT_VALIDATION_LIMITS),
            table |-> <<>>, line |-> 0,
            tables |-> <<>>, idx |-> raw.idx, gidx |-> raw.gidx]
      ELSE TablesOf(<<>> \o [i \in 1..Len(raw.tables) |->
                               SchemaOf(raw.tables[i], cidx)],
                    raw.tables, raw.idx, raw.gidx))

\* TableExtractor.hasValidTables(sql)
TableExtractor_hasValidTables(a, li, gidx, cidx) ==
    With(TableExtractor_extractTables(a, li, gidx, cidx), LAMBDA r :
         [ret |-> r.err = "" /\ Len(r.tables) > 0, idx |-> r.idx, gidx |-> r.gidx])

----------------------------------------------------------------------------
(* The type mapper (TypeMapper, src/parser/table-extractor.ts)             *)
(*                                                                         *)
(* A mapping table is the list of its entries <<key, TypeScript type>> in  *)
(* the order of insertion, which is the order of Object.keys; a key is a   *)
(* text and a TypeScript type a string, of which "" is no type (null).     *)

\* the values of the enum SQLDialect
SQLDialect == {"mysql", "postgresql", "sqlite", "auto"}

\* String.prototype.toLowerCase on one character
LowerChar(c) ==
    IF c \in UpperSet
    THEN LowerCase[CHOOSE i \in DOMAIN UpperCase : UpperCase[i] = c]
    ELSE c

\* String.prototype.toLowerCase
ToLower(s) == [i \in DOMAIN s |-> LowerChar(s[i])]

\* String.prototype.includes
IncludesText(s, sub) == IndexOf(s, sub) # -1

RECURSIVE Replaced(_, _, _, _)
\* the text of s from the position from on with each of the matches ms
\* replaced by w
Replaced(s, ms, from, w) ==
    IF ms = <<>> THEN SubSeq(s, from, Len(s))
    ELSE SubSeq(s, from, ms[1].start - 1) \o w \o Replaced(s, Tail(ms), ms[1].pos, w)

\* String.prototype.replace with a regular expression that has the g flag
ReplaceAll(p, s, w) == Replaced(s, ExecAll(p, s, 0), 1, w)

\* String.prototype.replace with a regular expression without the g flag
ReplaceFirst(p, s, w) ==
    With(Search(p, s, 1), LAMBDA m :
         IF m.start = 0 THEN s ELSE Replaced(s, <<m>>, 1, w))

\* the keys of a mapping table: Object.keys
Keys(mappings) == [i \in DOMAIN mappings |-> mappings[i][1]]

\* mappings[key] !== undefined
Has(mappings, key) == \E i \in DOMAIN mappings : mappings[i][1] = key

\* mappings[key], "" standing for undefined
Get(mappings, key) ==
    IF Has(mappings, key)
    THEN mappings[CHOOSE i \in DOMAIN mappings : mappings[i][1] = key][2]
    ELSE ""

\* mappings[key] = tsType
Put(mappings, key, tsType) ==
    IF Has(mappings, key)
    THEN [i \in DOMAIN mappings |->
             IF mappings[i][1] = key THEN <<key, tsType>> ELSE mappings[i]]
    ELSE Append(mappings, <<key, tsType>>)

\* delete mappings[key]
Delete(mappings, key) == SelectSeq(mappings, LAMBDA e : e[1] # key)

RECURSIVE Spread(_, _)
\* { ...defaultMappings, ...customMappings }
Spread(defaultMappings, customMappings) ==
    IF customMappings = <<>> THEN defaultMappings
    ELSE Spread(Put(defaultMappings, customMappings[1][1], customMappings[1][2]),
                Tail(customMappings))

\* TypeMapper.TYPE_MAPPINGS
TYPE_MAPPINGS ==
    [ mysql |-> <<
        <<<<"i","n","t">>, "number">>,
        <<<<"b","i","g","i","n","t">>, "number">>,
        <<<<"t","i","n","y","i","n","t">>, "number">>,
        <<<<"s","m","a","l","l","i","n","t">>, "number">>,
        <<<<"m","e","d","i","u","m","i","n","t">>, "number">>,
        <<<<"f","l","o","a","t">>, "number">>,
        <<<<"d","o","u","b","l","e">>, "number">>,
        <<<<"d","e","c","i","m","a","l">>, "number">>,
        <<<<"n","u","m","e","r","i","c">>, "number">>,
        <<<<"v","a","r","c","h","a","r">>, "string">>,
        <<<<"c","h","a","r">>, "string">>,
        <<<<"t","e","x","t">>, "string">>,
        <<<<"l","o","n","g","t","e","x","t">>, "string">>,
        <<<<"m","e","d","i","u","m","t","e","x","t">>, "string">>,
        <<<<"t","i","n","y","t","e","x","t">>, "string">>,
        <<<<"d","a","t","e","t","i","m","e">>, "Date">>,
        <<<<"t","i","m","e","s","t","a","m","p">>, "Date">>,
        <<<<"d","a","t","e">>, "Date">>,
        <<<<"t","i","m","e">>, "string">>,
        <<<<"y","e","a","r">>, "number">>,
        <<<<"b","o","o","l","e","a","n">>, "boolean">>,
        <<<<"t","i","n","y","i","n","t","(","1",")">>, "boolean">>,
        <<<<"b","i","t">>, "boolean">>,
        <<<<"j","s","o","n">>, "object">>,
        <<<<"b","l","o","b">>, "Buffer">>,
        <<<<"l","o","n","g","b","l","o","b">>, "Buffer">>,
        <<<<"m","e","d","i","u","m","b","l","o","b">>, "Buffer">>,
        <<<<"t","i","n","y","b","l","o","b">>, "Buffer">>,
        <<<<"b","i","n","a","r","y">>, "Buffer">>,
        <<<<"v","a","r","b","i","n","a","r","y">>, "Buffer">> >>,
      postgresql |-> <<
        <<<<"i","n","t","e","g","e","r">>, "number">>,
        <<<<"i","n","t">>, "number">>,
        <<<<"i","n","t","4">>, "number">>,
        <<<<"b","i","g","i","n","t">>, "number">>,
        <<<<"i","n","t","8">>, "number">>,
        <<<<"s","m","a","l","l","i","n","t">>, "number">>,
        <<<<"i","n","t","2">>, "number">>,
        <<<<"r","e","a","l">>, "number">>,
        <<<<"f","l","o","a","t","4">>, "number">>,
        <<<<"d","o","u","b","l","e"," ","p","r","e","c","i","s","i","o","n">>, "number">>,
        <<<<"f","l","o","a","t","8">>, "number">>,
        <<<<"n","u","m","e","r","i","c">>, "number">>,
        <<<<"d","e","c","i","m","a","l">>, "number">>,
        <<<<"v","a","r","c","h","a","r">>, "string">>,
        <<<<"c","h","a","r","a","c","t","e","r"," ","v","a","r","y","i","n","g">>, "string">>,
        <<<<"c","h","a","r">>, "string">>,
        <<<<"c","h","a","r","a","c","t","e","r">>, "string">>,
        <<<<"t","e","x","t">>, "string">>,
        <<<<"t","i","m","e","s","t","a","m","p">>, "Date">>,
        <<<<"t","i","m","e","s","t","a","m","p","t","z">>, "Date">>,
        <<<<"t","i","m","e","s","t","a","m","p"," ","w","i","t","h"," ","t","i","m","e"," ","z","o","n","e">>, "Date">>,
        <<<<"t","i","m","e","s","t","a","m","p"," ","w","i","t","h","o","u","t"," ","t","i","m","e"," ","z","o","n","e">>, "Date">>,
        <<<<"d","a","t","e">>, "Date">>,
        <<<<"t","i","m","e">>, "string">>,
        <<<<"t","i","m","e","t","z">>, "string">>,
        <<<<"t","i","m","e"," ","w","i","t","h"," ","t","i","m","e"," ","z","o","n","e">>, "string">>,
        <<<<"t","i","m","e"," ","w","i","t","h","o","u","t"," ","t","i","m","e"," ","z","o","n","e">>, "string">>,
        <<<<"b","o","o","l","e","a","n">>, "boolean">>,
        <<<<"b","o","o","l">>, "boolean">>,
        <<<<"j","s","o","n">>, "object">>,
        <<<<"j","s","o","n","b">>, "object">>,
        <<<<"u","u","i","d">>, "string">>,
        <<<<"b","y","t","e","a">>, "Buffer">>,
        <<<<"s","e","r","i","a","l">>, "number">>,
        <<<<"b","i","g","s","e","r","i","a","l">>, "number">>,
        <<<<"s","m","a","l","l","s","e","r","i","a","l">>, "number">> >>,
      sqlite |-> <<
        <<<<"i","n","t","e","g","e","r">>, "number">>,
        <<<<"i","n","t">>, "number">>,
        <<<<"r","e","a","l">>, "number">>,
        <<<<"f","l","o","a","t">>, "number">>,
        <<<<"d","o","u","b","l","e">>, "number">>,
        <<<<"t","e","x","t">>, "string">>,
        <<<<"v","a","r","c","h","a","r">>, "string">>,
        <<<<"c","h","a","r">>, "string">>,
        <<<<"b","l","o","b">>, "Buffer">>,
        <<<<"n","u","m","e","r","i","c">>, "number">>,
        <<<<"d","e","c","i","m","a","l">>, "number">>,
        <<<<"b","o","o","l","e","a","n">>, "boolean">>,
        <<<<"d","a","t","e","t","i","m","e">>, "Date">>,
        <<<<"t","i","m","e","s","t","a","m","p">>, "Date">>,
        <<<<"d","a","t","e">>, "Date">>,
        <<<<"t","i","m","e">>, "string">> >> ]

\* new TypeMapper(options): the custom mappings are a function from the
\* dialects that have a table to their tables
TypeMapper(customMappings, strictMode) ==
    [customMappings |-> customMappings, strictMode |-> strictMode]

\* no custom mappings: {}
NoMappings == [d \in {} |-> <<>>]

\* this.customMappings[dialect] || {}
CustomOf(this, dialect) ==
    IF dialect \in DOMAIN this.customMappings THEN this.customMappings[dialect]
    ELSE <<>>

\* the dialect whose tables are read for a dialect: AUTO reads those of MySQL
ActualDialect(dialect) == IF dialect = "auto" THEN "mysql" ELSE dialect

\* TypeMapper.TYPE_MAPPINGS as the mapper reads it: the tables of the static
\* field are objects, and this.TYPE_MAPPINGS stands for their contents at the
\* time of the call when they are held in the heap
StaticMappings(this) ==
    IF "TYPE_MAPPINGS" \in DOMAIN this THEN this.TYPE_MAPPINGS ELSE TYPE_MAPPINGS

\* getMergedMappings returns null
NoMergedMappings(dialect) == ActualDialect(dialect) \notin DOMAIN TYPE_MAPPINGS

\* TypeMapper.getMergedMappings(dialect), of a dialect that has mappings
getMergedMappings(this, dialect) ==
    Spread(StaticMappings(this)[ActualDialect(dialect)],
           CustomOf(this, ActualDialect(dialect)))

KwTinyint == <<"t","i","n","y","i","n","t">>
KwEnum == <<"e","n","u","m">>
KwSet == <<"s","e","t">>
KwInt == <<"i","n","t">>
KwPoint == <<"p","o","i","n","t">>
KwTinyint1 == <<"t","i","n","y","i","n","t","(","1",")">>
KwBrackets == <<"[","]">>

\* a TINYINT of any size: /^tinyint\s*\(\s*\d+\s*\)/
PatTinyintSized ==
    Cat(<<Bol, Word(KwTinyint), Ws0, Ch("("), Ws0, Plus(Set("d")), Ws0, Ch(")")>>)

\* /^tinyint\s*\(\s*1\s*\)/
PatTinyint1 == Cat(<<Bol, Word(KwTinyint), Ws0, Ch("("), Ws0, Ch("1"), Ws0, Ch(")")>>)

\* /^enum\s*\(/
PatEnum == Cat(<<Bol, Word(KwEnum), Ws0, Ch("(")>>)

\* /^set\s*\(/
PatSet == Cat(<<Bol, Word(KwSet), Ws0, Ch("(")>>)

\* /\[\]$/
PatBracketsEnd == Cat(<<Ch("["), Ch("]"), Eol>>)

\* /\([^)]*\)/g
PatSize == Cat(<<Ch("("), Star(Set("notClose")), Ch(")")>>)

\* /\s+(unsigned|signed)$/i
PatSignedEnd == Cat(<<Ws1, Grp(1, Alt(<<Word(KwUNSIGNED), Word(KwSIGNED)>>)), Eol>>)

\* a returned TypeScript type
Returned(tsType) == [err |-> "", ret |-> tsType, sqlType |-> <<>>, dialect |-> ""]

\* throw new TypeMappingError(message, sqlType, dialect)
TypeMappingError(sqlType, dialect) ==
    [err |-> "TypeMappingError", ret |-> "", sqlType |-> sqlType, dialect |-> dialect]

\* a call that calls itself with its own arguments and so never returns: the
\* engine ends it with a RangeError when the call stack is full
RangeError == [err |-> "RangeError", ret |-> "", sqlType |-> <<>>, dialect |-> ""]

\* TypeMapper.normalizeType(sqlType)
normalizeType(sqlType) ==
    Trim(ReplaceAll(Ws1,
                    ReplaceFirst(PatSignedEnd,
                                 ReplaceAll(PatSize, Trim(ToLower(sqlType)), <<>>),
                                 <<>>),
                    <<" ">>))

\* TypeMapper.findPartialMatch(normalizedType, mappings); "" is null
findPartialMatch(normalizedType, mappings) ==
    IF normalizedType = KwTinyint /\ Get(mappings, KwTinyint1) # ""
    THEN IF Get(mappings, KwTinyint) # "" THEN Get(mappings, KwTinyint) ELSE "number"
    ELSE With(Split(normalizedType, " ")[1], LAMBDA baseType :
              IF baseType # <<>> /\ Get(mappings, baseType) # ""
              THEN Get(mappings, baseType)
              ELSE "")

RECURSIVE mapType(_, _, _)

\* TypeMapper.handleSpecialCases(cleanType, dialect, mappings): the outcome
\* whose ret is "" is null
handleSpecialCases(this, cleanType, dialect, mappings) ==
    IF dialect = "mysql" /\ Test(PatTinyint1, cleanType)
    THEN Returned(IF Get(mappings, KwTinyint1) # ""
                  THEN Get(mappings, KwTinyint1) ELSE "boolean")
    ELSE IF dialect = "mysql" /\ Test(PatEnum, cleanType) THEN Returned("string")
    ELSE IF dialect = "mysql" /\ Test(PatSet, cleanType) THEN Returned("string")
    ELSE IF dialect = "postgresql" /\ IncludesText(cleanType, KwBrackets)
    THEN With(Trim(ReplaceFirst(PatBracketsEnd, cleanType, <<>>)), LAMBDA baseType :
              IF baseType = cleanType THEN RangeError
              ELSE With(mapType(this, baseType, dialect), LAMBDA baseMapping :
                        IF baseMapping.err # "" THEN baseMapping
                        ELSE Returned(baseMapping.ret \o "[]")))
    ELSE IF dialect = "postgresql" /\ Test(PatEnum, cleanType) THEN Returned("string")
    ELSE IF /\ dialect = "sqlite"
            /\ IncludesText(cleanType, KwInt)
            /\ ~IncludesText(cleanType, KwPoint)
    THEN Returned("number")
    ELSE Returned("")

\* the end of mapType for a type that no step has resolved
Unrecognized(this, sqlType, dialect) ==
    IF this.strictMode THEN TypeMappingError(sqlType, dialect) ELSE Returned("any")

\* the steps of mapType after the special cases
MapNormalized(this, sqlType, dialect, dialectMappings) ==
    With(normalizeType(Trim(ToLower(sqlType))), LAMBDA normalizedType :
         IF Get(dialectMappings, normalizedType) # ""
         THEN Returned(Get(dialectMappings, normalizedType))
         ELSE With(findPartialMatch(normalizedType, dialectMappings),
                   LAMBDA partialMatch :
                   IF partialMatch # "" THEN Returned(partialMatch)
                   ELSE Unrecognized(this, sqlType, dialect)))

\* TypeMapper.mapType(sqlType, dialect)
mapType(this, sqlType, dialect) ==
    IF sqlType = <<>> THEN Returned("any")
    ELSE IF NoMergedMappings(dialect)
    THEN IF this.strictMode THEN TypeMappingError(sqlType, dialect)
         ELSE mapType(this, sqlType, "mysql")
    ELSE With(getMergedMappings(this, dialect), LAMBDA dialectMappings :
         With(handleSpecialCases(this, Trim(ToLower(sqlType)), dialect, dialectMappings),
              LAMBDA specialCase :
              IF specialCase.err # "" \/ specialCase.ret # "" THEN specialCase
              ELSE MapNormalized(this, sqlType, dialect, dialectMappings)))

\* TypeMapper.getSupportedTypes(dialect)
getSupportedTypes(this, dialect) ==
    IF NoMergedMappings(dialect) THEN <<>>
    ELSE Keys(getMergedMappings(this, dialect))

\* TypeMapper.isTypeSupported(sqlType, dialect)
isTypeSupported(this, sqlType, dialect) ==
    IF NoMergedMappings(dialect) THEN FALSE
    ELSE With(getMergedMappings(this, dialect), LAMBDA mappings :
              \/ Has(mappings, normalizeType(sqlType))
              \/ findPartialMatch(normalizeType(sqlType), mappings) # "")

\* TypeMapper.addCustomMapping(dialect, sqlType, tsType)
addCustomMapping(this, dialect, sqlType, tsType) ==
    [this EXCEPT !.customMappings =
        (dialect :> Put(CustomOf(this, dialect), ToLower(sqlType), tsType)) @@ @]

\* TypeMapper.removeCustomMapping(dialect, sqlType)
removeCustomMapping(this, dialect, sqlType) ==
    IF dialect \in DOMAIN this.customMappings
    THEN [this EXCEPT !.customMappings[dialect] = Delete(@, ToLower(sqlType))]
    ELSE this

\* TypeMapper.getCustomMappings(dialect)
getCustomMappings(this, dialect) == CustomOf(this, dialect)

\* TypeMapper.clearCustomMappings(dialect)
clearCustomMappings(this, dialect) ==
    IF dialect \in DOMAIN this.customMappings
    THEN [this EXCEPT !.customMappings[dialect] = <<>>]
    ELSE this

\* TypeMapper.getDefaultMappings(dialect)
getDefaultMappings(dialect) ==
    IF ActualDialect(dialect) \in DOMAIN TYPE_MAPPINGS
    THEN TYPE_MAPPINGS[ActualDialect(dialect)]
    ELSE <<>>

----------------------------------------------------------------------------
(* The objects of the type mapper                                          *)
(*                                                                         *)
(* The constructor keeps the reference options.customMappings, and the     *)
(* methods write into the objects that it leads to.  The heap holds these  *)
(* objects: tables (from SQL types to TypeScript types, the first being    *)
(* the tables of TypeMapper.TYPE_MAPPINGS), customMappings objects (from   *)
(* dialects to tables), the TypeMapper instances with the customMappings   *)
(* object that each refers to, and the customMappings objects that the     *)
(* caller made and passed to a constructor.                                *)

\* the dialects of TypeMapper.TYPE_MAPPINGS in the order of their tables
\* in the heap
BuiltInDialects == <<"mysql", "postgresql", "sqlite">>

\* the place in the heap of the table TYPE_MAPPINGS[dialect]
BuiltInTable(dialect) == CHOOSE k \in DOMAIN BuiltInDialects : BuiltInDialects[k] = dialect

\* the heap when the module is loaded
NoObjects ==
    [tables |-> [k \in DOMAIN BuiltInDialects |-> TYPE_MAPPINGS[BuiltInDialects[k]]],
     objects |-> <<>>, instances |-> <<>>, passed |-> {}]

\* a new table with the entries
WithTable(h, entries) == [h EXCEPT !.tables = Append(@, entries)]

\* a new customMappings object with the tables of the dialects
WithObject(h, object) == [h EXCEPT !.objects = Append(@, object)]

\* new TypeMapper({ customMappings }): this.customMappings is the object
\* that the caller passed
constructorWith(h, object) ==
    [h EXCEPT !.instances = Append(@, [customMappings |-> object, strictMode |-> FALSE]),
              !.passed = @ \cup {object}]

\* new TypeMapper(): this.customMappings is a new object {}
constructorWithout(h) ==
    With(WithObject(h, <<>>), LAMBDA g :
         [g EXCEPT !.instances =
             Append(@, [customMappings |-> Len(g.objects), strictMode |-> FALSE])])

\* this.customMappings of the instance
CustomMappingsOf(h, instance) == h.objects[h.instances[instance].customMappings]

\* the instance as its methods read it: the contents of the tables of its
\* customMappings object and of TypeMapper.TYPE_MAPPINGS
ThisOf(h, instance) ==
    [customMappings |->
        [d \in DOMAIN CustomMappingsOf(h, instance) |->
            h.tables[CustomMappingsOf(h, instance)[d]]],
     strictMode |-> h.instances[instance].strictMode,
     TYPE_MAPPINGS |->
        [d \in DOMAIN TYPE_MAPPINGS |-> h.tables[BuiltInTable(d)]]]

\* this.customMappings[dialect][sqlType.toLowerCase()] = tsType, after
\* "if (!this.customMappings[dialect]) this.customMappings[dialect] = {}"
addCustomMappingInPlace(h, instance, dialect, sqlType, tsType) ==
    With(h.instances[instance].customMappings, LAMBDA o :
    With(IF dialect \in DOMAIN h.objects[o] THEN h
         ELSE [WithTable(h, <<>>) EXCEPT
                  !.objects[o] = (dialect :> (Len(h.tables) + 1)) @@ @], LAMBDA g :
         [g EXCEPT !.tables[g.objects[o][dialect]] = Put(@, ToLower(sqlType), tsType)]))

\* delete this.customMappings[dialect][sqlType.toLowerCase()]
removeCustomMappingInPlace(h, instance, dialect, sqlType) ==
    With(h.instances[instance].customMappings, LAMBDA o :
         IF dialect \in DOMAIN h.objects[o]
         THEN [h EXCEPT !.tables[h.objects[o][dialect]] = Delete(@, ToLower(sqlType))]
         ELSE h)

\* this.customMappings[dialect] = {}
clearCustomMappingsInPlace(h, instance, dialect) ==
    With(h.instances[instance].customMappings, LAMBDA o :
         IF dialect \in DOMAIN h.objects[o]
         THEN [WithTable(h, <<>>) EXCEPT !.objects[o][dialect] = Len(h.tables) + 1]
         ELSE h)

\* TypeMapper.getDefaultMappings(dialect): the table itself, not a copy
getDefaultMappingsOf(h, dialect) ==
    IF ActualDialect(dialect) \in DOMAIN TYPE_MAPPINGS
    THEN h.tables[BuiltInTable(ActualDialect(dialect))]
    ELSE <<>>


----------------------------------------------------------------------------
(* The code generator (TypeScriptGenerator, src/generator)                 *)

\* the generator options: all fields optional or not; the names are kept as
\* they are (naming 'preserve') and no comments are written
GeneratorOptions == [optionalFields : BOOLEAN]

\* TypeScriptGenerator.formatFieldName(fieldName, options) under the naming
\* convention 'preserve', for which applyNamingConvention returns its argument
formatFieldName(fieldName, options) == fieldName

\* a default value that is a non-empty text
optionalIfTruthyDefault(field, options) ==
    options.optionalFields \/ (field.defaultValue.def /\ field.defaultValue.v # <<>>)

\* TypeScriptGenerator.isFieldOptional(field, options)
isFieldOptional(field, options) ==
    options.optionalFields \/ field.defaultValue.def

\* TypeScriptGenerator.getFinalFieldType(field, baseType, options)
getFinalFieldType(field, baseType, options) ==
    IF field.nullable /\ ~isFieldOptional(field, options)
    THEN baseType \o " | null"
    ELSE baseType

\* TypeScriptGenerator.generateFieldDeclaration(field, options) with the type
\* mapper of generateTypes, new TypeMapper(): the pieces of the template
\* literal `  ${fieldName}${optionalMarker}: ${finalType};` in their order
generateFieldDeclaration(field, options) ==
    With(mapType(TypeMapper(NoMappings, FALSE), field.type, "mysql").ret, LAMBDA tsType :
         <<"  ", formatFieldName(field.name, options),
           IF isFieldOptional(field, options) THEN "?" ELSE "",
           ": ", getFinalFieldType(field, tsType, options), ";">>)

\* the map over schema.fields of generateInterface
fieldDeclarations(fields, options) ==
    [k \in DOMAIN fields |-> generateFieldDeclaration(fields[k], options)]

----------------------------------------------------------------------------
(* The count ceilings of extractSchemas (src/index.ts)                     *)
(*                                                                         *)
(* An input that passes the gate and the parser is given here by its       *)
(* counts: created is the number of matches of /CREATE\s+TABLE/gi in its   *)
(* text, and fieldCounts holds the number of fields of each of its tables  *)
(* in their order.                                                         *)

\* the first table whose number of fields validateFieldCount refuses under
\* the limits, 0 when there is none
FirstOverFieldCount(fieldCounts, limits) ==
    With({k \in DOMAIN fieldCounts : validateFieldCount(fieldCounts[k], limits) # ""},
         LAMBDA over : IF over = {} THEN 0 ELSE Least(over))

\* the count checks of validateForProcessing(sql, limits)
validateForProcessing(input, limits) == validateTableCount(input.created, limits)

\* the count checks of TableExtractor.extractTables(sql, options), which
\* calls validateTableCount and validateFieldCount without limits
extractTablesCounts(input) ==
    IF validateTableCount(Len(input.fieldCounts), DEFAULT_VALIDATION_LIMITS) # ""
    THEN validateTableCount(Len(input.fieldCounts), DEFAULT_VALIDATION_LIMITS)
    ELSE IF FirstOverFieldCount(input.fieldCounts, DEFAULT_VALIDATION_LIMITS) # 0
    THEN "Error extracting table: Field count exceeds maximum allowed count"
    ELSE ""

\* extractSchemas(input, options, validationLimits): the SQLParseError it
\* throws, "" when it returns the schemas
extractSchemas(input, validationLimits) ==
    With(createValidationLimits(validationLimits), LAMBDA limits :
         IF validateForProcessing(input, limits) # ""
         THEN validateForProcessing(input, limits)
         ELSE IF extractTablesCounts(input) # "" THEN extractTablesCounts(input)
         ELSE IF FirstOverFieldCount(input.fieldCounts, limits) # 0
         THEN "Field count exceeds maximum allowed count"
         ELSE "")

----------------------------------------------------------------------------
(* The callers: arguments and calls of the public operations               *)

\* the greatest number of CREATE TABLE statements in one SQL text
MaxTables == 2

\* the greatest number of comma-separated segments in one field list
MaxSegs == 2

Str(s) == [t |-> "string", s |-> s]

RECURSIVE JoinWith(_, _)
\* Array.prototype.join: the texts of ss with sep between them
JoinWith(ss, sep) ==
    IF Len(ss) = 0 THEN <<>>
    ELSE IF Len(ss) = 1 THEN ss[1]
    ELSE ss[1] \o sep \o JoinWith(Tail(ss), sep)

\* field lists of the first statement of a text
FieldLists ==
    << <<"a"," ","I","N","T">>,
       <<"i","d"," ","I","N","T"," ","P","R","I","M","A","R","Y"," ","K","E","Y",",",
         "b"," ","T","E","X","T">>,
       <<"P","R","I","M","A","R","Y"," ","K","E","Y"," ","(","i","d",")">>,
       <<"a"," ","I","N","T"," ","D","E","F","A","U","L","T"," ",
         "(","R","(",")"," ","*"," ","1",")">>,
       <<"a"," ","I","N","T",",","U","N","I","Q","U","E"," "," ","K","E","Y"," ",
         "u"," ","(","a",")">>,
       <<>> >>

\* field lists of the statements after the first
TailLists == SubSeq(FieldLists, 1, 1)

\* the name of the k-th table of a text: t1, t2, ...
TableName(k) == <<"t", CHOOSE d \in Digits : d = ToString(k)>>

\* CREATE TABLE <k-th name> (<fl>)
Statement(k, fl) ==
    <<"C","R","E","A","T","E"," ","T","A","B","L","E"," ">> \o TableName(k)
    \o <<" ", "(">> \o fl \o <<")">>

\* the choices of field lists for texts of n statements
Choices(n) ==
    {c \in [1..n -> 1..Len(FieldLists)] : \A k \in 2..n : c[k] <= Len(TailLists)}

\* the SQL text of the statements with the field lists c, one per line
SqlOf(c) ==
    JoinWith([k \in DOMAIN c |-> Statement(k, FieldLists[c[k]])], <<";", "\n">>)

SqlTexts == UNION {{SqlOf(c) : c \in Choices(n)} : n \in 1..MaxTables}

\* texts without a statement, of which the last passes the gate, and a text
\* that the gate refuses
OtherTexts ==
    { <<>>, <<" ", " ">>,
      <<"S","E","L","E","C","T"," ","1">>,
      <<"C","R","E","A","T","E"," ","T","A","B","L","E"," ","t"," ","x">>,
      Statement(1, FieldLists[1])
      \o <<";"," ","D","R","O","P"," ","T","A","B","L","E"," ","t","1">> }

\* texts of two statements of which one or both are invalid: a second table
\* with a definition that has no type, and a first table with such a
\* definition before a second table with an empty field list
FaultyTexts ==
    { Statement(1, FieldLists[1]) \o <<";", "\n">> \o Statement(2, <<"b">>),
      Statement(1, <<"a">>) \o <<";", "\n">> \o Statement(2, <<>>) }

NoText == <<>>

\* the arguments of the calls on SQL input
SqlArgs ==
    {Str(s) : s \in SqlTexts \cup OtherTexts \cup FaultyTexts}
    \cup {[t |-> k, s |-> NoText] : k \in {"null", "undefined", "number"}}

\* the segments of the field lists handed to FieldParser and to
\* extractTableConstraints
Segments ==
    << <<"a"," ","I","N","T">>,
       <<"i","d"," ","I","N","T"," ","P","R","I","M","A","R","Y"," ","K","E","Y">>,
       <<"b"," ","T","E","X","T"," ","N","O","T"," ","N","U","L","L">>,
       <<"c"," ","D","E","C","I","M","A","L","(","1","0",",","2",")"," ",
         "D","E","F","A","U","L","T"," ","'","x","\\","'",",","y","'">>,
       <<"P","R","I","M","A","R","Y"," ","K","E","Y"," ","(","i","d",")">>,
       <<"U","N","I","Q","U","E"," "," ","K","E","Y"," ","u"," ","(","a",")">>,
       <<"F","O","R","E","I","G","N"," ","K","E","Y"," ","(","a",")"," ",
         "R","E","F","E","R","E","N","C","E","S"," ","t","(","i","d",")">>,
       <<"K","E","Y"," ","k"," ","(",BQ,"a",BQ,","," ","b",")">>,
       <<>>,
       <<"x">> >>

\* the field lists of n segments
FieldTextsOf(n) ==
    {JoinWith([k \in 1..n |-> Segments[c[k]]], <<",">>) : c \in [1..n -> 1..Len(Segments)]}

\* the DEFAULT clauses of the definitions handed to FieldParser: the value as
\* it is written (has = FALSE: no DEFAULT clause) and what follows it
DefaultCases ==
    { [has |-> FALSE, value |-> <<>>, rest |-> <<>>],
      [has |-> FALSE, value |-> <<>>,
       rest |-> <<" ","C","O","M","M","E","N","T"," ","'","d","e","f","a","u","l","t"," ","x","'">>],
      [has |-> TRUE, value |-> <<"N","U","L","L">>, rest |-> <<>>],
      [has |-> TRUE, value |-> <<"'","'">>, rest |-> <<>>],
      [has |-> TRUE, value |-> <<"\"","\"">>, rest |-> <<>>],
      [has |-> TRUE, value |-> <<"'","o","n","'">>, rest |-> <<>>],
      [has |-> TRUE, value |-> <<"\"","o","f","f","\"">>, rest |-> <<>>],
      [has |-> TRUE, value |-> <<"'","o","n","'">>,
       rest |-> <<" ","C","O","M","M","E","N","T"," ","'","c","'">>],
      [has |-> TRUE, value |-> <<"'","a"," ","b","'">>, rest |-> <<>>],
      [has |-> TRUE, value |-> <<"N","O","W","(",")">>, rest |-> <<>>],
      [has |-> TRUE, value |-> <<"'","a","'","|","|","'","b","'">>, rest |-> <<>>],
      [has |-> TRUE, value |-> <<"0">>, rest |-> <<" ","N","O","T"," ","N","U","L","L">>] }

\* the definition of the column a with the DEFAULT clause c
DefaultTextOf(c) ==
    <<"a"," ","T","E","X","T">>
    \o (IF c.has THEN <<" ","D","E","F","A","U","L","T"," ">> \o c.value ELSE <<>>)
    \o c.rest

FieldArgs ==
    {Str(s) : s \in UNION {FieldTextsOf(n) : n \in 1..MaxSegs}}
    \cup {Str(DefaultTextOf(c)) : c \in DefaultCases}

\* the greatest number of custom mappings that a mapper holds
MaxCustom == 1

\* the dialects handed to the mapper: those of SQLDialect and a string
\* that is none of them
Dialects == SQLDialect \cup {"oracle"}

\* the SQL types for which custom mappings are supplied, added and removed
CustomKeys == { <<"I","N","T">>, <<"e","n","u","m">>, <<"u","u","i","d">> }

\* the TypeScript types of the custom mappings
CustomTypes == {"bigint", "Custom"}

\* the custom mappings supplied at construction
ConstructorMappings ==
    { NoMappings,
      "mysql" :> << <<KwInt, "bigint">> >>,
      "sqlite" :> << <<KwInt, "bigint">> >>,
      "postgresql" :> << <<KwInt, "bigint">>, <<KwEnum, "Custom">> >> }

\* the SQL types handed to mapType
SqlTypes ==
    { <<>>, <<" "," ">>,
      <<"I","N","T">>,
      <<"T","I","N","Y","I","N","T">>,
      <<"T","I","N","Y","I","N","T","(","1",")">>,
      <<"t","i","n","y","i","n","t"," ","("," ","1"," ",")">>,
      <<" ","T","i","n","y","I","n","t","(","1",")"," ">>,
      <<"T","I","N","Y","I","N","T","(","2",")">>,
      <<"t","i","n","y","I","N","T"," ","("," ","2"," ",")">>,
      <<"T","I","N","Y","I","N","T","(","1","1",")">>,
      <<"E","N","U","M","(","'","a","'",",","'","b","'",")">>,
      <<"S","E","T","(","'","a","'",")">>,
      <<"U","U","I","D">>,
      <<"I","N","T","[","]">>,
      <<"[","]","x">>,
      <<"f","o","o">> }

\* the SQL types handed to isTypeSupported
SupportTypes ==
    { <<"I","N","T">>, <<"T","I","N","Y","I","N","T","(","1",")">>,
      <<"E","N","U","M","(","'","a","'",")">>, <<"f","o","o">> }

\* the number of custom mappings that a mapper holds
CustomCount(this) ==
    LET RECURSIVE Sum(_)
        Sum(ds) == IF ds = {} THEN 0
                   ELSE LET d == CHOOSE x \in ds : TRUE
                        IN Len(this.customMappings[d]) + Sum(ds \ {d})
    IN Sum(DOMAIN this.customMappings)

\* the inputs of extractSchemas by their counts: n tables of c fields each,
\* and e matches of CREATE TABLE in the text that are no statement (in a
\* comment or in a quoted text)
CountArgs ==
    {[t |-> "counts", s |-> NoText, created |-> n + e, fieldCounts |-> [k \in 1..n |-> c]] :
        n \in {1, 2, 3, 1000, 1001}, c \in {1, 2, 3, 500, 501}, e \in {0, 1}}

\* the validation limits that the caller supplies
LimitChoices ==
    { <<>>,
      [maxTableCount |-> 2], [maxFieldCount |-> 2],
      [maxTableCount |-> 2, maxFieldCount |-> 2],
      [maxTableCount |-> 2000], [maxFieldCount |-> 600],
      [maxTableCount |-> 2000, maxFieldCount |-> 600] }

\* the greatest number of attribute clauses written after the type of a
\* definition
MaxClauses == 2

\* the attribute clauses written after the type of a definition
AttributeClauses ==
    << <<"N","O","T"," ","N","U","L","L">>,
       <<"P","R","I","M","A","R","Y"," ","K","E","Y">>,
       <<"U","N","I","Q","U","E">>,
       <<"A","U","T","O","_","I","N","C","R","E","M","E","N","T">>,
       <<"R","E","F","E","R","E","N","C","E","S"," ","t","(","c",")">>,
       <<"C","H","E","C","K"," ","(","p",")">>,
       <<"D","E","F","A","U","L","T"," ","0">>,
       <<"C","O","M","M","E","N","T"," ","'","s","'">> >>

\* the orderings of the subsets of at most MaxClauses attribute clauses
ClauseOrders ==
    UNION {{o \in [1..n -> 1..Len(AttributeClauses)] :
               \A i, j \in 1..n : i # j => o[i] # o[j]} : n \in 0..MaxClauses}

\* the definition of the column a of type INT with the clauses o in their order
DefinitionOf(o) ==
    <<"a"," ","I","N","T">>
    \o JoinWith([k \in DOMAIN o |-> <<" ">> \o AttributeClauses[o[k]]], <<>>)

\* the definitions handed to parseField with the clauses they are written from
AttributeArgs ==
    {[t |-> "string", s |-> DefinitionOf(o), clauses |-> o] : o \in ClauseOrders}

\* the types written in the definitions handed to parseField: one-word types,
\* and compound types with arguments, modifiers, brackets and several words
WrittenTypes ==
    { <<"I","N","T">>,
      <<"I","N","T"," ","U","N","S","I","G","N","E","D">>,
      <<"D","E","C","I","M","A","L","(","1","0",",","2",")">>,
      <<"D","E","C","I","M","A","L","(","1","0",",","2",")"," ","U","N","S","I","G","N","E","D">>,
      <<"I","N","T","(","1","1",")"," ","U","N","S","I","G","N","E","D"," ",
        "Z","E","R","O","F","I","L","L">>,
      <<"B","I","G","I","N","T"," "," ","S","I","G","N","E","D">>,
      <<"T","E","X","T","[","]">>,
      <<"T","E","X","T"," ","[","]">>,
      <<"V","A","R","C","H","A","R","(","2","5","5",")">>,
      <<"D","O","U","B","L","E"," ","P","R","E","C","I","S","I","O","N">>,
      <<"C","H","A","R","A","C","T","E","R"," ","V","A","R","Y","I","N","G","(","1","0",")">>,
      <<"T","I","M","E","S","T","A","M","P"," ","W","I","T","H"," ","T","I","M","E"," ",
        "Z","O","N","E">> }

\* the attribute clauses o in their order, one blank between two of them
ClausesText(o) == JoinWith([k \in DOMAIN o |-> AttributeClauses[o[k]]], <<" ">>)

\* the definition of the column a of the type written as type, followed by
\* the clauses o
TypedDefinitionOf(type, o) ==
    <<"a"," ">> \o type \o (IF o = <<>> THEN <<>> ELSE <<" ">> \o ClausesText(o))

\* the definitions handed to parseField with the type they are written with:
\* each type alone and before each single clause
TypeArgs ==
    {[t |-> "string", s |-> TypedDefinitionOf(type, o), type |-> type, clauses |-> o] :
        type \in WrittenTypes, o \in {c \in ClauseOrders : Len(c) <= 1}}

\* the column names of the definitions handed to FieldParser: names that
\* begin with the letters of a constraint keyword, and names that do not
ColumnNames ==
    { <<"k","e","y","_","i","d">>,
      <<"i","n","d","e","x","_","n","o">>,
      <<"u","n","i","q","u","e","_","c","o","d","e">>,
      <<"c","h","e","c","k","_","s","u","m">>,
      <<"c","o","n","s","t","r","a","i","n","t","_","t","y","p","e">>,
      <<"K","E","Y","_","I","D">>,
      <<"k","e","y","s">>,
      <<"p","r","i","m","a","r","y","_","k","e","y","_","i","d">>,
      <<"c","h","e","c","k","e","d">>,
      <<"i","d">> }

ColumnTypes == { <<"I","N","T">>, <<"V","A","R","C","H","A","R","(","1","0",")">> }

\* the table-level constraints among the definitions handed to FieldParser
TableClauses ==
    { <<"P","R","I","M","A","R","Y"," ","K","E","Y"," ","(","i","d",")">>,
      <<"p","r","i","m","a","r","y"," ","k","e","y"," ","(","i","d",")">>,
      <<"U","N","I","Q","U","E"," ","(","a",")">>,
      <<"U","N","I","Q","U","E"," ","K","E","Y"," ","u"," ","(","a",")">>,
      <<"I","N","D","E","X"," ","i"," ","(","a",")">>,
      <<"K","E","Y"," ","k"," ","(","a",")">>,
      <<"K","E","Y","(","a",")">>,
      <<"C","O","N","S","T","R","A","I","N","T"," ","c"," ","U","N","I","Q","U","E"," ","(","a",")">>,
      <<"C","H","E","C","K"," ","(","a"," ",">"," ","0",")">>,
      <<"F","O","R","E","I","G","N"," ","K","E","Y"," ","(","a",")"," ","R","E","F","E","R","E","N","C","E","S"," ","t","(","i","d",")">> }

\* the definitions handed to FieldParser: columns with their names, and
\* table-level constraints
KeywordParts ==
    {[column |-> TRUE, name |-> n, text |-> n \o <<" ">> \o ty] :
        n \in ColumnNames, ty \in ColumnTypes}
    \cup {[column |-> FALSE, name |-> <<>>, text |-> c] : c \in TableClauses}

\* the column id of type INT
IdPart == [column |-> TRUE, name |-> <<"i","d">>, text |-> <<"i","d"," ","I","N","T">>]

\* the texts handed to FieldParser with the definitions they are written
\* from: each definition alone, and each after the column id
KeywordArgs ==
    {[t |-> "string", s |-> p.text, parts |-> <<p>>] : p \in KeywordParts}
    \cup {[t |-> "string", s |-> IdPart.text \o <<",">> \o p.text, parts |-> <<IdPart, p>>] :
             p \in KeywordParts}

\* the values written after DEFAULT in the definitions handed to parseField:
\* words, quoted texts (with a blank, a comma, a keyword, an escaped quote
\* and an escaped backslash) and parenthesised expressions and calls
WrittenDefaults ==
    { <<"0">>,
      <<"N","U","L","L">>,
      <<"C","U","R","R","E","N","T","_","T","I","M","E","S","T","A","M","P">>,
      <<"'","o","n","'">>,
      <<"'","a"," ","b","'">>,
      <<"'","x",",","y","'">>,
      <<"'","N","O","T"," ","N","U","L","L","'">>,
      <<"'","i","t","\\","'","s","'">>,
      <<"'","C",":","\\","\\","'">>,
      <<"(","1"," ","+"," ","2",")">>,
      <<"N","O","W","(",")">>,
      <<"C","O","N","C","A","T","(","'","a","'",","," ","N","U","L","L",")">> }

\* what follows the DEFAULT clause of a definition: nothing, each of the
\* clauses that end the value, and a comma after a blank and directly
DefaultFollowers ==
    { <<>>,
      <<" ","C","O","M","M","E","N","T"," ","'","c","'">>,
      <<" ","N","O","T"," ","N","U","L","L">>,
      <<" ","N","U","L","L">>,
      <<" ","P","R","I","M","A","R","Y"," ","K","E","Y">>,
      <<" ","U","N","I","Q","U","E">>,
      <<" ","A","U","T","O","_","I","N","C","R","E","M","E","N","T">>,
      <<" ",","," ","b"," ","I","N","T">>,
      <<","," ","b"," ","I","N","T">> }

\* the ON UPDATE clauses written after the value of a DEFAULT clause (text)
\* with their values (value): none, and two spellings
OnUpdateClauses ==
    { [text |-> <<>>, value |-> <<>>],
      [text |-> <<" ","O","N"," ","U","P","D","A","T","E"," ","C","U","R","R","E","N","T","_","T","I","M","E","S","T","A","M","P">>, value |-> <<"C","U","R","R","E","N","T","_","T","I","M","E","S","T","A","M","P">>],
      [text |-> <<" "," ","o","n"," "," ","u","p","d","a","t","e"," "," ","N","O","W","(",")">>, value |-> <<"N","O","W","(",")">>] }

\* the definition of the column a with the DEFAULT value, the ON UPDATE
\* clause and the follower
StoppedDefinitionOf(value, onUpdate, follower) ==
    <<"a"," ","I","N","T"," ","D","E","F","A","U","L","T"," ">>
    \o value \o onUpdate.text \o follower

\* the definitions handed to parseField with the DEFAULT value and the
\* ON UPDATE clause they are written with
DefaultStopArgs ==
    {[t |-> "string", s |-> StoppedDefinitionOf(value, onUpdate, follower),
      value |-> value, onUpdate |-> onUpdate] :
        value \in WrittenDefaults, onUpdate \in OnUpdateClauses,
        follower \in DefaultFollowers}

\* the greatest number of parts of a text handed to parse
MaxParts == 2

\* the parts of the texts handed to parse, each on lines of its own: an empty
\* line, a comment, and statements; name is the table name of a statement
\* (empty for the others), before the number of line ends of the part before
\* its table name, and lines the number of its lines
TextParts ==
    { [text |-> <<>>,
       name |-> <<>>, before |-> 0, lines |-> 1],
      [text |-> <<"-","-"," ","t","1">>,
       name |-> <<>>, before |-> 0, lines |-> 1],
      [text |-> <<"C","R","E","A","T","E"," ","T","A","B","L","E"," ","u","s","e","r","s"," ","(","i","d"," ","I","N","T",")",";">>,
       name |-> <<"u","s","e","r","s">>, before |-> 0, lines |-> 1],
      [text |-> <<"C","R","E","A","T","E"," ","T","A","B","L","E"," ","t","1"," ","(","a"," ","I","N","T",")",";">>,
       name |-> <<"t","1">>, before |-> 0, lines |-> 1],
      [text |-> <<"C","R","E","A","T","E"," ","T","A","B","L","E"," ","a"," ","(","b"," ","I","N","T",")",";">>,
       name |-> <<"a">>, before |-> 0, lines |-> 1],
      [text |-> <<"C","R","E","A","T","E"," ","T","A","B","L","E"," ","t"," ","(","x"," ","I","N","T",")",";">>,
       name |-> <<"t">>, before |-> 0, lines |-> 1],
      [text |-> <<"C","R","E","A","T","E"," ","T","A","B","L","E"," ","t","2"," ","(","t","1"," ","I","N","T",")",";">>,
       name |-> <<"t","2">>, before |-> 0, lines |-> 1],
      [text |-> <<"C","R","E","A","T","E"," ","T","A","B","L","E","\n","t","3"," ","(","c"," ","I","N","T",")",";">>,
       name |-> <<"t","3">>, before |-> 1, lines |-> 2] }

\* the text of the parts ps, one after the other on lines of their own
TextOfParts(ps) == JoinWith([k \in DOMAIN ps |-> ps[k].text], <<"\n">>)

\* the texts handed to parse with the parts they are written from
PartArgs ==
    {[t |-> "string", s |-> TextOfParts(ps), parts |-> ps] :
        ps \in UNION {[1..n -> TextParts] : n \in 1..MaxParts}}

\* the greatest number of TypeMapper instances of a caller
MaxInstances == 2

\* the greatest number of tables in the heap that are not built in
MaxOwnTables == 1

\* the SQL types of the custom mappings written by the instances of a caller
SharedKeys == { <<"U","U","I","D">> }

\* the table literal that a caller writes in a customMappings object
TableLiteral == << <<KwInt, "bigint">> >>

\* the dialect sets of the customMappings literals of a caller: every dialect
\* of the set stands for one and the same new table
LiteralDialects == { {}, {"mysql"}, {"mysql", "sqlite"} }

\* a heap may take one more instance, and one more table
MayConstruct(h) == Len(h.instances) < MaxInstances
MayAllocate(h) == Len(h.tables) < Len(BuiltInDialects) + MaxOwnTables

\* the SQL types handed to mapType as array types: brackets at the end,
\* repeated, followed by other text, and none
ArrayTypes ==
    { <<"I","N","T","[","]">>,
      <<"I","N","T","[","]","[","]">>,
      <<"T","E","X","T","[","]"," ","U","N","S","I","G","N","E","D">>,
      <<"T","E","X","T"," ","[","]">>,
      <<" ","I","n","t","[","]"," ">>,
      <<"f","o","o","[","]">>,
      <<"[","]">>,
      <<"[","]","x">>,
      <<"x","[","]","y","[","]">>,
      <<"I","N","T">>,
      <<"f","o","o">>,
      <<"E","N","U","M","(","'","a","'",")","[","]">> }

\* the texts written between quotes: a word that is no keyword, and the
\* words of each attribute clause
QuotedWords ==
    { <<"x">>,
      <<"P","r","i","m","a","r","y"," ","k","e","y">>,
      <<"N","O","T"," ","N","U","L","L">>,
      <<"u","n","i","q","u","e">>,
      <<"a","u","t","o","_","i","n","c","r","e","m","e","n","t">>,
      <<"D","E","F","A","U","L","T"," ","5">>,
      <<"r","e","f","e","r","e","n","c","e","s"," ","t","(","c",")">>,
      <<"c","h","e","c","k"," ","(","x",")">>,
      <<"n","u","l","l">>,
      <<"a"," ","k","e","y">> }

\* the clauses that take a quoted text
QuotingClauses == { <<"C","O","M","M","E","N","T">>, <<"D","E","F","A","U","L","T">> }

\* the attributes written before the quoting clause: none, NOT NULL, UNIQUE
AttributesBefore == { <<>>, <<"N","O","T"," ","N","U","L","L"," ">>, <<"U","N","I","Q","U","E"," ">> }

\* the definition of the column a with the attribute and the clause whose
\* quoted text is words
QuotingDefinitionOf(before, clause, quote, words) ==
    <<"a"," ","I","N","T"," ">> \o before \o clause \o <<" ", quote>> \o words \o <<quote>>

\* the definitions handed to parseField with what they are written from
QuotingArgs ==
    {[t |-> "string", s |-> QuotingDefinitionOf(before, clause, quote, words),
      before |-> before, clause |-> clause, quote |-> quote, words |-> words] :
        before \in AttributesBefore, clause \in QuotingClauses,
        quote \in {"'", "\""}, words \in QuotedWords}

\* the greatest length of a text handed to the two scanners
MaxScanLen == 3

\* the characters of those texts: a letter, the parentheses, two quote
\* characters and the backslash
ScanChars == {"a", "(", ")", "'", "\"", "\\"}

\* the texts handed to hasUnmatchedDelimiters and splitFieldDefinitions
ScanArgs ==
    {[t |-> "string", s |-> <<>> \o s, scanned |-> TRUE] :
        s \in UNION {[1..n -> ScanChars] : n \in 0..MaxScanLen}}

NoArg == [t |-> "none", s |-> NoText]
NoOut == [none |-> TRUE]
ZeroGate == [i \in 1..Len(GatePatterns) |-> 0]
ZeroConstraint == <<0, 0, 0, 0>>
NoEntry == [createIdx |-> 0, gateIdx |-> ZeroGate]

Init ==
    /\ arg = NoArg
    /\ op = "none"
    /\ out = NoOut
    /\ createIdx = 0
    /\ constraintIdx = ZeroConstraint
    /\ gateIdx = ZeroGate
    /\ entry = NoEntry
    /\ mapper = TypeMapper(NoMappings, FALSE)
    /\ heap = NoObjects

Ready == arg # NoArg /\ op = "none"

\* the caller takes the argument of its next call
Prepare(a) ==
    /\ arg' = a
    /\ op' = "none"
    /\ out' = NoOut
    /\ entry' = NoEntry
    /\ UNCHANGED <<createIdx, constraintIdx, gateIdx, mapper, heap>>

\* SQLParser.parse(arg)
CallParse ==
    /\ Ready
    /\ With(SQLParser_parse(arg, createIdx, gateIdx), LAMBDA r :
          /\ out' = [err |-> r.err, table |-> r.table, tables |-> r.tables]
          /\ createIdx' = r.idx
          /\ gateIdx' = r.gidx)
    /\ op' = "parse"
    /\ entry' = [createIdx |-> createIdx, gateIdx |-> gateIdx]
    /\ UNCHANGED <<arg, constraintIdx, mapper, heap>>

\* SQLParser.hasCreateTableStatements(arg)
CallHasCreate ==
    /\ Ready
    /\ With(SQLParser_hasCreateTableStatements(arg, createIdx), LAMBDA r :
          /\ out' = [ret |-> r.ret]
          /\ createIdx' = r.idx)
    /\ op' = "hasCreateTableStatements"
    /\ entry' = [createIdx |-> createIdx, gateIdx |-> gateIdx]
    /\ UNCHANGED <<arg, constraintIdx, gateIdx, mapper, heap>>

\* TableExtractor.extractTables(arg)
CallExtractTables ==
    /\ Ready
    /\ With(TableExtractor_extractTables(arg, createIdx, gateIdx, constraintIdx),
            LAMBDA r :
          /\ out' = [err |-> r.err, table |-> r.table, line |-> r.line,
                     tables |-> r.tables]
          /\ createIdx' = r.idx
          /\ gateIdx' = r.gidx)
    /\ op' = "extractTables"
    /\ entry' = [createIdx |-> createIdx, gateIdx |-> gateIdx]
    /\ UNCHANGED <<arg, constraintIdx, mapper, heap>>

\* TableExtractor.hasValidTables(arg)
CallHasValidTables ==
    /\ Ready
    /\ With(TableExtractor_hasValidTables(arg, createIdx, gateIdx, constraintIdx),
            LAMBDA r :
          /\ out' = [ret |-> r.ret]
          /\ createIdx' = r.idx
          /\ gateIdx' = r.gidx)
    /\ op' = "hasValidTables"
    /\ entry' = [createIdx |-> createIdx, gateIdx |-> gateIdx]
    /\ UNCHANGED <<arg, constraintIdx, mapper, heap>>

\* validateSqlInput(arg)
CallValidateSqlInput ==
    /\ Ready
    /\ With(validateSqlInput(arg, gateIdx), LAMBDA r :
          /\ out' = [err |-> r.err]
          /\ gateIdx' = r.idx)
    /\ op' = "validateSqlInput"
    /\ entry' = [createIdx |-> createIdx, gateIdx |-> gateIdx]
    /\ UNCHANGED <<arg, createIdx, constraintIdx, mapper, heap>>

Next ==
    \/ \E a \in SqlArgs : Prepare(a)
    \/ CallParse
    \/ CallHasCreate
    \/ CallExtractTables
    \/ CallHasValidTables
    \/ CallValidateSqlInput

Spec == Init /\ [][Next]_vars

\* FieldParser.splitFieldDefinitions(arg)
CallSplitFieldDefinitions ==
    /\ Ready
    /\ out' = [definitions |-> splitFieldDefinitions(arg.s)]
    /\ op' = "splitFieldDefinitions"
    /\ UNCHANGED <<arg, createIdx, constraintIdx, gateIdx, entry, mapper, heap>>

\* FieldParser.parseFields(arg)
CallParseFields ==
    /\ Ready
    /\ out' = parseFields(arg.s)
    /\ op' = "parseFields"
    /\ UNCHANGED <<arg, createIdx, constraintIdx, gateIdx, entry, mapper, heap>>

\* FieldParser.parseField(arg)
CallParseField ==
    /\ Ready
    /\ out' = parseField(arg.s)
    /\ op' = "parseField"
    /\ UNCHANGED <<arg, createIdx, constraintIdx, gateIdx, entry, mapper, heap>>

\* TableExtractor.extractTableConstraints(arg)
CallExtractTableConstraints ==
    /\ Ready
    /\ out' = [constraints |-> extractTableConstraints(arg.s, constraintIdx)]
    /\ op' = "extractTableConstraints"
    /\ UNCHANGED <<arg, createIdx, constraintIdx, gateIdx, entry, mapper, heap>>

FieldNext ==
    \/ \E a \in FieldArgs : Prepare(a)
    \/ CallSplitFieldDefinitions
    \/ CallParseFields
    \/ CallParseField
    \/ CallExtractTableConstraints

FieldSpec == Init /\ [][FieldNext]_vars

\* the arguments of a call of the mapper
MapperArg(sqlType, dialect, tsType) ==
    [t |-> "mapper", s |-> sqlType, dialect |-> dialect, tsType |-> tsType]

Idle == op = "none"

\* the caller takes the outcome of the call
Return ==
    /\ ~Idle
    /\ op' = "none"
    /\ arg' = NoArg
    /\ out' = NoOut
    /\ UNCHANGED <<createIdx, constraintIdx, gateIdx, entry, mapper, heap>>

\* new TypeMapper({ customMappings, strictMode })
Construct ==
    /\ Idle
    /\ \E customMappings \in ConstructorMappings, strictMode \in BOOLEAN :
          mapper' = TypeMapper(customMappings, strictMode)
    /\ CustomCount(mapper') <= MaxCustom
    /\ op' = "constructor"
    /\ arg' = NoArg
    /\ out' = NoOut
    /\ UNCHANGED <<createIdx, constraintIdx, gateIdx, entry, heap>>

\* mapper.addCustomMapping(dialect, sqlType, tsType)
CallAddCustomMapping ==
    /\ Idle
    /\ \E dialect \in SQLDialect, sqlType \in CustomKeys, tsType \in CustomTypes :
          /\ mapper' = addCustomMapping(mapper, dialect, sqlType, tsType)
          /\ arg' = MapperArg(sqlType, dialect, tsType)
    /\ CustomCount(mapper') <= MaxCustom
    /\ op' = "addCustomMapping"
    /\ out' = NoOut
    /\ UNCHANGED <<createIdx, constraintIdx, gateIdx, entry, heap>>

\* mapper.removeCustomMapping(dialect, sqlType)
CallRemoveCustomMapping ==
    /\ Idle
    /\ \E dialect \in SQLDialect, sqlType \in CustomKeys :
          /\ mapper' = removeCustomMapping(mapper, dialect, sqlType)
          /\ arg' = MapperArg(sqlType, dialect, "")
    /\ op' = "removeCustomMapping"
    /\ out' = NoOut
    /\ UNCHANGED <<createIdx, constraintIdx, gateIdx, entry, heap>>

\* mapper.clearCustomMappings(dialect)
CallClearCustomMappings ==
    /\ Idle
    /\ \E dialect \in SQLDialect :
          /\ mapper' = clearCustomMappings(mapper, dialect)
          /\ arg' = MapperArg(<<>>, dialect, "")
    /\ op' = "clearCustomMappings"
    /\ out' = NoOut
    /\ UNCHANGED <<createIdx, constraintIdx, gateIdx, entry, heap>>

\* mapper.mapType(sqlType, dialect)
CallMapType ==
    /\ Idle
    /\ \E sqlType \in SqlTypes, dialect \in Dialects :
          /\ out' = mapType(mapper, sqlType, dialect)
          /\ arg' = MapperArg(sqlType, dialect, "")
    /\ op' = "mapType"
    /\ UNCHANGED <<createIdx, constraintIdx, gateIdx, entry, mapper, heap>>

\* mapper.getSupportedTypes(dialect)
CallGetSupportedTypes ==
    /\ Idle
    /\ \E dialect \in Dialects :
          /\ out' = [types |-> getSupportedTypes(mapper, dialect)]
          /\ arg' = MapperArg(<<>>, dialect, "")
    /\ op' = "getSupportedTypes"
    /\ UNCHANGED <<createIdx, constraintIdx, gateIdx, entry, mapper, heap>>

\* mapper.isTypeSupported(sqlType, dialect)
CallIsTypeSupported ==
    /\ Idle
    /\ \E sqlType \in SupportTypes, dialect \in Dialects :
          /\ out' = [ret |-> isTypeSupported(mapper, sqlType, dialect)]
          /\ arg' = MapperArg(sqlType, dialect, "")
    /\ op' = "isTypeSupported"
    /\ UNCHANGED <<createIdx, constraintIdx, gateIdx, entry, mapper, heap>>

\* mapper.getCustomMappings(dialect)
CallGetCustomMappings ==
    /\ Idle
    /\ \E dialect \in Dialects :
          /\ out' = [mappings |-> getCustomMappings(mapper, dialect)]
          /\ arg' = MapperArg(<<>>, dialect, "")
    /\ op' = "getCustomMappings"
    /\ UNCHANGED <<createIdx, constraintIdx, gateIdx, entry, mapper, heap>>

\* TypeMapper.getDefaultMappings(dialect)
CallGetDefaultMappings ==
    /\ Idle
    /\ \E dialect \in Dialects :
          /\ out' = [mappings |-> getDefaultMappings(dialect)]
          /\ arg' = MapperArg(<<>>, dialect, "")
    /\ op' = "getDefaultMappings"
    /\ UNCHANGED <<createIdx, constraintIdx, gateIdx, entry, mapper, heap>>

MapperNext ==
    \/ Return
    \/ Construct
    \/ CallAddCustomMapping
    \/ CallRemoveCustomMapping
    \/ CallClearCustomMappings
    \/ CallMapType
    \/ CallGetSupportedTypes
    \/ CallIsTypeSupported
    \/ CallGetCustomMappings
    \/ CallGetDefaultMappings

MapperSpec == Init /\ [][MapperNext]_vars

\* the field declarations that TypeScriptGenerator.generateInterface writes
\* for the fields that parseFields has returned
CallGenerateFieldDeclarations ==
    /\ op = "parseFields"
    /\ out.err = ""
    /\ \E options \in GeneratorOptions :
          out' = [fields |-> out.fields, options |-> options,
                  declarations |-> fieldDeclarations(out.fields, options)]
    /\ op' = "generateFieldDeclarations"
    /\ UNCHANGED <<arg, createIdx, constraintIdx, gateIdx, entry, mapper, heap>>

GeneratorNext ==
    \/ \E a \in FieldArgs : Prepare(a)
    \/ CallParseFields
    \/ CallGenerateFieldDeclarations

GeneratorSpec == Init /\ [][GeneratorNext]_vars

\* extractSchemas(arg, {}, validationLimits)
CallExtractSchemas ==
    /\ Ready
    /\ \E validationLimits \in LimitChoices :
          out' = [err |-> extractSchemas(arg, validationLimits),
                  validationLimits |-> validationLimits]
    /\ op' = "extractSchemas"
    /\ UNCHANGED <<arg, createIdx, constraintIdx, gateIdx, entry, mapper, heap>>

LimitsNext ==
    \/ \E a \in CountArgs : Prepare(a)
    \/ CallExtractSchemas

LimitsSpec == Init /\ [][LimitsNext]_vars

AttributeNext ==
    \/ \E a \in AttributeArgs : Prepare(a)
    \/ CallParseField

AttributeSpec == Init /\ [][AttributeNext]_vars

TypeNext ==
    \/ \E a \in TypeArgs : Prepare(a)
    \/ CallParseField

TypeSpec == Init /\ [][TypeNext]_vars

KeywordNext ==
    \/ \E a \in KeywordArgs : Prepare(a)
    \/ CallParseFields
    \/ CallParseField

KeywordSpec == Init /\ [][KeywordNext]_vars

DefaultNext ==
    \/ \E a \in DefaultStopArgs : Prepare(a)
    \/ CallParseField

DefaultSpec == Init /\ [][DefaultNext]_vars

LineNext ==
    \/ \E a \in PartArgs : Prepare(a)
    \/ CallParse

LineSpec == Init /\ [][LineNext]_vars

\* new TypeMapper()
ConstructWithout ==
    /\ MayConstruct(heap)
    /\ heap' = constructorWithout(heap)
    /\ op' = "constructor"
    /\ arg' = NoArg
    /\ out' = NoOut
    /\ UNCHANGED <<createIdx, constraintIdx, gateIdx, entry, mapper>>

\* const t = { int: 'bigint' }; new TypeMapper({ customMappings: { d1: t, d2: t } })
ConstructWithLiteral ==
    /\ MayConstruct(heap)
    /\ \E ds \in LiteralDialects :
          /\ ds # {} => MayAllocate(heap)
          /\ heap' = With(IF ds = {} THEN heap ELSE WithTable(heap, TableLiteral),
                          LAMBDA h :
                          With(WithObject(h, [d \in ds |-> Len(h.tables)]), LAMBDA g :
                               constructorWith(g, Len(g.objects))))
    /\ op' = "constructor"
    /\ arg' = NoArg
    /\ out' = NoOut
    /\ UNCHANGED <<createIdx, constraintIdx, gateIdx, entry, mapper>>

\* new TypeMapper({ customMappings: { mysql: table } }) with a table that the
\* caller holds: one that getDefaultMappings or getCustomMappings returned,
\* or one of an earlier literal
ConstructWithTable ==
    /\ MayConstruct(heap)
    /\ \E table \in DOMAIN heap.tables :
          heap' = With(WithObject(heap, "mysql" :> table), LAMBDA g :
                       constructorWith(g, Len(g.objects)))
    /\ op' = "constructor"
    /\ arg' = NoArg
    /\ out' = NoOut
    /\ UNCHANGED <<createIdx, constraintIdx, gateIdx, entry, mapper>>

\* new TypeMapper({ customMappings }) with a customMappings object that the
\* caller passed to a constructor before
ConstructWithSame ==
    /\ MayConstruct(heap)
    /\ \E object \in heap.passed : heap' = constructorWith(heap, object)
    /\ op' = "constructor"
    /\ arg' = NoArg
    /\ out' = NoOut
    /\ UNCHANGED <<createIdx, constraintIdx, gateIdx, entry, mapper>>

\* instance.addCustomMapping(dialect, sqlType, 'Custom')
AddCustomMappingOf ==
    /\ \E instance \in DOMAIN heap.instances, dialect \in DOMAIN TYPE_MAPPINGS,
          sqlType \in SharedKeys :
          /\ dialect \notin DOMAIN CustomMappingsOf(heap, instance) => MayAllocate(heap)
          /\ heap' = addCustomMappingInPlace(heap, instance, dialect, sqlType, "Custom")
    /\ arg' = NoArg
    /\ op' = "addCustomMapping"
    /\ out' = NoOut
    /\ UNCHANGED <<createIdx, constraintIdx, gateIdx, entry, mapper>>

\* instance.removeCustomMapping(dialect, sqlType)
RemoveCustomMappingOf ==
    /\ \E instance \in DOMAIN heap.instances, dialect \in DOMAIN TYPE_MAPPINGS,
          sqlType \in SharedKeys :
          heap' = removeCustomMappingInPlace(heap, instance, dialect, sqlType)
    /\ arg' = NoArg
    /\ op' = "removeCustomMapping"
    /\ out' = NoOut
    /\ UNCHANGED <<createIdx, constraintIdx, gateIdx, entry, mapper>>

\* instance.clearCustomMappings(dialect)
ClearCustomMappingsOf ==
    /\ \E instance \in DOMAIN heap.instances, dialect \in DOMAIN TYPE_MAPPINGS :
          /\ dialect \in DOMAIN CustomMappingsOf(heap, instance) => MayAllocate(heap)
          /\ heap' = clearCustomMappingsInPlace(heap, instance, dialect)
    /\ arg' = NoArg
    /\ op' = "clearCustomMappings"
    /\ out' = NoOut
    /\ UNCHANGED <<createIdx, constraintIdx, gateIdx, entry, mapper>>

FrameNext ==
    \/ ConstructWithout
    \/ ConstructWithLiteral
    \/ ConstructWithTable
    \/ ConstructWithSame
    \/ AddCustomMappingOf
    \/ RemoveCustomMappingOf
    \/ ClearCustomMappingsOf

FrameSpec == Init /\ [][FrameNext]_vars

\* mapper.mapType(sqlType, dialect) for the array types
CallMapArrayType ==
    /\ Idle
    /\ \E sqlType \in ArrayTypes, dialect \in Dialects :
          /\ out' = mapType(mapper, sqlType, dialect)
          /\ arg' = MapperArg(sqlType, dialect, "")
    /\ op' = "mapType"
    /\ UNCHANGED <<createIdx, constraintIdx, gateIdx, entry, mapper, heap>>

ArrayNext ==
    \/ Return
    \/ Construct
    \/ CallMapArrayType

ArraySpec == Init /\ [][ArrayNext]_vars

QuotingNext ==
    \/ \E a \in QuotingArgs : Prepare(a)
    \/ CallParseField

QuotingSpec == Init /\ [][QuotingNext]_vars

\* hasUnmatchedDelimiters(arg)
CallHasUnmatchedDelimiters ==
    /\ Ready
    /\ out' = [unmatched |-> hasUnmatchedDelimiters(arg.s)]
    /\ op' = "hasUnmatchedDelimiters"
    /\ UNCHANGED <<arg, createIdx, constraintIdx, gateIdx, entry, mapper, heap>>

ScanNext ==
    \/ \E a \in ScanArgs : Prepare(a)
    \/ CallHasUnmatchedDelimiters
    \/ CallSplitFieldDefinitions

ScanSpec == Init /\ [][ScanNext]_vars

----------------------------------------------------------------------------
(* Properties of the calls on SQL input (Spec)                             *)

\* the outcome of the operation o on the argument a when every shared regular
\* expression stands at lastIndex 0, as on the first call of a program
Fresh(o, a) ==
    CASE o = "parse" ->
           With(SQLParser_parse(a, 0, ZeroGate), LAMBDA r :
                [err |-> r.err, table |-> r.table, tables |-> r.tables])
      [] o = "hasCreateTableStatements" ->
           With(SQLParser_hasCreateTableStatements(a, 0), LAMBDA r : [ret |-> r.ret])
      [] o = "extractTables" ->
           With(TableExtractor_extractTables(a, 0, ZeroGate, ZeroConstraint), LAMBDA r :
                [err |-> r.err, table |-> r.table, line |-> r.line,
                 tables |-> r.tables])
      [] o = "hasValidTables" ->
           With(TableExtractor_hasValidTables(a, 0, ZeroGate, ZeroConstraint), LAMBDA r :
                [ret |-> r.ret])
      [] o = "validateSqlInput" ->
           With(validateSqlInput(a, ZeroGate), LAMBDA r : [err |-> r.err])
      [] OTHER -> NoOut

\* C1: whatever calls ran before, the outcome of a call of parse,
\* hasCreateTableStatements, extractTables, hasValidTables or validateSqlInput
\* is the outcome that the same call has on its argument in a program that
\* made no call before: no lastIndex left by an earlier call is observed.
C1_OutcomeDependsOnArgumentOnly == op # "none" => out = Fresh(op, arg)

\* extractTables has returned two tables after calls that left the lastIndex
\* of CREATE_TABLE_REGEX and of a pattern of the gate away from 0
C1_ExtractAfterLeftovers ==
    /\ op = "extractTables"
    /\ out.err = ""
    /\ Len(out.tables) >= 2
    /\ entry.createIdx # 0
    /\ entry.gateIdx # ZeroGate

\* the number of "(" less the number of ")" among the first k characters of s
ParenDepth(s, k) ==
    Cardinality({j \in 1..k : s[j] = "("}) - Cardinality({j \in 1..k : s[j] = ")"})

\* every ")" of s closes a "(" before it, and every "(" is closed
Balanced(s) ==
    /\ ParenDepth(s, Len(s)) = 0
    /\ \A k \in 1..Len(s) : ParenDepth(s, k) >= 0

\* the indices of the outermost "(" of s, and of the ")" that close them
Openers(s) ==
    SelectSeq([i \in 1..Len(s) |-> i],
              LAMBDA i : s[i] = "(" /\ ParenDepth(s, i - 1) = 0)
Closers(s) ==
    SelectSeq([i \in 1..Len(s) |-> i],
              LAMBDA i : s[i] = ")" /\ ParenDepth(s, i) = 0)

\* the texts between the outermost parentheses of a balanced text, in order
OuterGroups(s) ==
    [k \in 1..Len(Openers(s)) |-> SubSeq(s, Openers(s)[k] + 1, Closers(s)[k] - 1)]

\* the greatest depth of parentheses in s
NestingOf(s) == Greatest({ParenDepth(s, k) : k \in 0..Len(s)})

\* C2: when parse returns, the fieldsString of its k-th table has balanced
\* parentheses and is the text between the outermost parentheses of the k-th
\* statement, whatever the depth of the parentheses inside it.
C2_FieldsStringIsOuterGroup ==
    (op = "parse" /\ out.err = "") =>
        With(OuterGroups(sanitizeSqlInput(arg)), LAMBDA groups :
             /\ Len(out.tables) = Len(groups)
             /\ \A k \in 1..Len(out.tables) :
                   /\ Balanced(out.tables[k].fieldsString)
                   /\ out.tables[k].fieldsString = Trim(groups[k]))

\* /CREATE\s+TABLE\s+(\w+)\s*\(/: the head of a CREATE TABLE statement as the
\* texts of the callers write it
StatementHead ==
    Cat(<<Word(KwCREATE), Ws1, Word(KwTABLE), Ws1, Grp(1, Plus(Set("w"))), Ws0, Ch("(")>>)

\* the argument is no string, is empty or blank, or holds no statement
NoStatementIn(a) ==
    \/ a.t # "string"
    \/ Trim(a.s) = <<>>
    \/ ~Test(StatementHead, a.s)

\* C5: on an argument that is no string, on the empty text, on a blank text
\* and on a text without a CREATE TABLE statement, parse throws its
\* SQLParseError and hasCreateTableStatements returns false.
C5_NoStatementFails ==
    NoStatementIn(arg) =>
        /\ op = "parse" => out.err # ""
        /\ op = "hasCreateTableStatements" => out = [ret |-> FALSE]

\* parse has thrown on a text that passes the gate and holds no statement
C5_ParseOfTextWithoutStatement ==
    /\ op = "parse"
    /\ arg.t = "string"
    /\ Trim(arg.s) # <<>>
    /\ NoStatementIn(arg)
    /\ out.err = "No CREATE TABLE statements found in the provided SQL"

\* C6: every table that extractTables returns has at least one field.
C6_FieldsNeverEmpty ==
    (op = "extractTables" /\ out.err = "") =>
        \A k \in 1..Len(out.tables) : out.tables[k].fields # <<>>

----------------------------------------------------------------------------
(* The splitting rule, written from its statement                          *)

\* the state of a reading of a field list: the quote that is open ("" when
\* none is) and the depth of parentheses, with the commas met at depth 0
\* outside every quote
RuleStart == [quote |-> "", depth |-> 0, cuts |-> <<>>]

\* the reading of the i-th character of s: a quote character that does not
\* follow a backslash opens a quote when none is open and closes the quote of
\* its own kind; parentheses count outside quotes only
RuleStep(s, i, st) ==
    LET c       == s[i]
        escaped == i > 1 /\ s[i - 1] = "\\"
        isQuote == c \in {"'", "\"", BQ} /\ ~escaped
    IN [quote |-> IF isQuote /\ st.quote = "" THEN c
                  ELSE IF isQuote /\ st.quote = c THEN ""
                  ELSE st.quote,
        depth |-> IF st.quote = "" /\ c = "(" THEN st.depth + 1
                  ELSE IF st.quote = "" /\ c = ")" THEN st.depth - 1
                  ELSE st.depth,
        cuts  |-> IF c = "," /\ st.quote = "" /\ st.depth = 0
                  THEN Append(st.cuts, i) ELSE st.cuts]

RECURSIVE RuleScan(_, _, _, _)
\* the reading of the characters lo..hi of s from the state st
RuleScan(s, lo, hi, st) ==
    IF lo > hi THEN st
    ELSE IF lo = hi THEN RuleStep(s, lo, st)
    ELSE LET left == RuleScan(s, lo, (lo + hi) \div 2, st)
         IN IF left.depth # left.depth + 1 \* the first half comes first
            THEN RuleScan(s, (lo + hi) \div 2 + 1, hi, left) ELSE left

\* the indices of the commas of s at depth 0 outside every quote, in order
TopLevelCommas(s) == RuleScan(s, 1, Len(s), RuleStart).cuts

\* the trimmed texts between the commas at the indices cuts of s, in order
PiecesAt(s, cuts) ==
    LET ends == <<0>> \o cuts \o <<Len(s) + 1>>
    IN <<>> \o [k \in 1..(Len(cuts) + 1) |->
                  Trim(SubSeq(s, ends[k] + 1, ends[k + 1] - 1))]

\* nothing but blanks follows the last top-level comma of s
EndsWithComma(s) ==
    With(TopLevelCommas(s), LAMBDA cuts :
         cuts # <<>> /\ Trim(SubSeq(s, cuts[Len(cuts)] + 1, Len(s))) = <<>>)

\* the definitions of the rule: the pieces between the top-level commas, less
\* a blank piece after the last of them
RuleDefinitions(s) ==
    With(PiecesAt(s, TopLevelCommas(s)), LAMBDA pieces :
         IF pieces[Len(pieces)] = <<>> THEN SubSeq(pieces, 1, Len(pieces) - 1)
         ELSE pieces)

\* s without its white space
StripSpace(s) == SelectSeq(s, LAMBDA c : ~IsSpace(c))

\* the first word of a definition: its characters before the first blank
FirstWord(d) ==
    With(Trim(d), LAMBDA w :
         SubSeq(w, 1, Least({i \in 1..(Len(w) + 1) : i > Len(w) \/ IsSpace(w[i])}) - 1))

\* the names of the fields that a field list declares, in the order of their
\* definitions: empty and table-level-constraint definitions declare none
DeclaredNames(fieldsString) ==
    With(SelectSeq(RuleDefinitions(fieldsString),
                   LAMBDA d : d # <<>> /\ ~isTableLevelConstraint(d)), LAMBDA defs :
         <<>> \o [k \in 1..Len(defs) |-> FirstWord(defs[k])])

\* the names of the statements of a text in the order in which they occur
StatementNames(sql) ==
    With(ExecAll(StatementHead, sql, 0), LAMBDA heads :
         <<>> \o [k \in 1..Len(heads) |-> Cap(sql, heads[k], 1)])

\* the names of the members of a sequence of tables or fields
NamesOf(xs) == <<>> \o [k \in 1..Len(xs) |-> xs[k].name]

\* C10: when extractTables returns, its tables are those of the statements
\* that parse finds, one each and in the order in which the statements occur
\* in the text, and the fields of each table are in the order of their
\* definitions in its field list.
C10_OrderPreserved ==
    (op = "extractTables" /\ out.err = "") =>
        With(Fresh("parse", arg).tables, LAMBDA raw :
             /\ NamesOf(out.tables) = NamesOf(raw)
             /\ NamesOf(out.tables) = StatementNames(arg.s)
             /\ \A k \in 1..Len(out.tables) :
                   NamesOf(out.tables[k].fields) = DeclaredNames(raw[k].fieldsString))

\* extractTables has returned two tables of which the first has two fields
C10_TwoTablesTwoFields ==
    /\ op = "extractTables"
    /\ out.err = ""
    /\ Len(out.tables) >= 2
    /\ Len(out.tables[1].fields) >= 2

----------------------------------------------------------------------------
(* Properties of the calls on field lists (FieldSpec)                      *)

\* C3: splitFieldDefinitions ends a definition at a comma exactly when the
\* comma stands at depth 0 outside every quote, where a quote character that
\* does not follow a backslash opens a quote when none is open and closes the
\* quote of its own kind, and parentheses count outside quotes only.
C3_SplitsAtTopLevelCommas ==
    op = "splitFieldDefinitions" => out.definitions = RuleDefinitions(arg.s)

\* splitFieldDefinitions has split a text at one comma and kept another, which
\* stands in a quote that holds an escaped quote character
C3_CommaInQuoteKept ==
    /\ op = "splitFieldDefinitions"
    /\ Len(out.definitions) = 2
    /\ \E i \in 2..Len(arg.s) : arg.s[i - 1] = "\\" /\ arg.s[i] = "'"
    /\ Cardinality({i \in 1..Len(arg.s) : arg.s[i] = ","}) > Len(TopLevelCommas(arg.s)) + 1

\* the number of the definitions of a field list that are neither empty nor a
\* table-level constraint
FieldSegmentCount(fieldsString) ==
    Cardinality({k \in 1..Len(splitFieldDefinitions(fieldsString)) :
                    /\ splitFieldDefinitions(fieldsString)[k] # <<>>
                    /\ ~isTableLevelConstraint(splitFieldDefinitions(fieldsString)[k])})

\* when parseFields returns, it returns as many fields as the field list has
\* definitions that are neither empty nor a table-level constraint
FieldCountIsSegmentCount ==
    (op = "parseFields" /\ out.err = "") =>
        Len(out.fields) = FieldSegmentCount(arg.s)

\* the definitions joined with commas are the field list but for white space
JoinedIsText ==
    StripSpace(JoinWith(out.definitions, <<",">>)) = StripSpace(arg.s)

\* C4 as stated: the fields returned are as many as the definitions kept, and
\* the definitions joined with commas are the field list but for white space.
C4_JoinReproducesText ==
    /\ FieldCountIsSegmentCount
    /\ op = "splitFieldDefinitions" => JoinedIsText

\* C4: the fields returned are as many as the definitions kept, and the
\* definitions joined with commas are the field list but for white space,
\* except that a top-level comma which only blanks follow is dropped: the
\* join then lacks that one comma at its end.
C4_JoinReproducesTextButLastComma ==
    /\ FieldCountIsSegmentCount
    /\ op = "splitFieldDefinitions" =>
          IF EndsWithComma(arg.s)
          THEN StripSpace(JoinWith(out.definitions, <<",">>)) \o <<",">>
               = StripSpace(arg.s)
          ELSE JoinedIsText

\* splitFieldDefinitions has split a field list that ends with a comma
C4_TrailingCommaSplit ==
    /\ op = "splitFieldDefinitions"
    /\ EndsWithComma(arg.s)
    /\ Len(out.definitions) = 1
    /\ out.definitions[1] # <<>>

\* the fields that the last call returned, each with the definition it comes from
ReturnedFields ==
    IF op = "parseField" /\ out.err = ""
    THEN <<[field |-> out.field, definition |-> arg.s]>>
    ELSE IF op = "parseFields" /\ out.err = ""
    THEN <<>> \o [k \in 1..Len(out.fields) |->
                    [field |-> out.fields[k],
                     definition |-> FieldDefinitionsOf(arg.s)[k]]]
    ELSE <<>>

\* the remainder of a definition: what follows its name and type
RemainderOf(definition) ==
    With(Trim(definition), LAMBDA d : Cap(d, Search(FIELD_DEFINITION_REGEX, d, 1), 5))

HasPrimaryKey(field) ==
    \E k \in 1..Len(field.constraints) : field.constraints[k].type = "PRIMARY_KEY"

\* C7: a field returned by parseField or parseFields that carries a
\* PRIMARY_KEY constraint is not nullable, and a field is nullable exactly
\* when its remainder holds neither NOT NULL nor PRIMARY KEY.
C7_PrimaryKeyNotNullable ==
    \A k \in 1..Len(ReturnedFields) :
        With(ReturnedFields[k], LAMBDA r :
             /\ HasPrimaryKey(r.field) => ~r.field.nullable
             /\ r.field.nullable =
                    (/\ ~Test(PatNotNull, RemainderOf(r.definition))
                     /\ ~Test(PatPrimaryKey, RemainderOf(r.definition))))

\* parseFields has returned a field that carries PRIMARY_KEY and whose
\* definition holds no NOT NULL
C7_PrimaryKeyWithoutNotNull ==
    /\ op = "parseFields"
    /\ \E k \in 1..Len(ReturnedFields) :
          /\ HasPrimaryKey(ReturnedFields[k].field)
          /\ ~Test(PatNotNull, ReturnedFields[k].definition)
          /\ ~ReturnedFields[k].field.nullable

\* the definition begins with the word kw
BeginsWithWord(definition, kw) ==
    ToUpper(FirstWord(definition)) = kw

\* the type of the table-level clause that a definition is, "" when it is none
ClauseType(definition) ==
    IF BeginsWithWord(definition, KwPRIMARY) THEN "PRIMARY_KEY"
    ELSE IF BeginsWithWord(definition, KwFOREIGN) THEN "FOREIGN_KEY"
    ELSE IF BeginsWithWord(definition, KwUNIQUE) THEN "UNIQUE"
    ELSE IF BeginsWithWord(definition, KwKEY) \/ BeginsWithWord(definition, KwINDEX)
    THEN "INDEX"
    ELSE ""

\* a column name without the quotes around it
Dequoted(name) ==
    IF Len(name) >= 2 /\ name[1] = name[Len(name)] /\ name[1] \in {"'", "\"", BQ}
    THEN SubSeq(name, 2, Len(name) - 1) ELSE name

\* the column names of a written list, de-quoted and in written order
ColumnsOf(list) ==
    With(Split(list, ","), LAMBDA names :
         <<>> \o [k \in 1..Len(names) |-> Dequoted(Trim(names[k]))])

\* the table that a FOREIGN KEY clause names: the word between REFERENCES and
\* the list of the columns referred to
ReferencedTable(clause) ==
    With(Trim(SubSeq(clause, Closers(clause)[1] + 1, Openers(clause)[2] - 1)), LAMBDA r :
         Trim(SubSeq(r, Len(KwREFERENCES) + 1, Len(r))))

\* the constraint that a table-level clause states
ConstraintOf(clause) ==
    [type |-> ClauseType(clause),
     fields |-> ColumnsOf(OuterGroups(clause)[1]),
     reference |-> IF ClauseType(clause) = "FOREIGN_KEY"
                   THEN [table |-> ReferencedTable(clause),
                         fields |-> ColumnsOf(OuterGroups(clause)[2])]
                   ELSE NoReference]

\* the clauses of the given type in a field list, in written order
ClausesOf(fieldsString, type) ==
    SelectSeq(RuleDefinitions(fieldsString), LAMBDA d : ClauseType(d) = type)

\* the constraints that the clauses of the given type state, in written order
StatedConstraints(fieldsString, type) ==
    With(ClausesOf(fieldsString, type), LAMBDA clauses :
         <<>> \o [k \in 1..Len(clauses) |-> ConstraintOf(clauses[k])])

ConstraintTypes == {"PRIMARY_KEY", "FOREIGN_KEY", "UNIQUE", "INDEX"}

\* C8: the constraints of each type that extractTableConstraints returns are
\* those that the clauses of that type in the field list state, one for each
\* clause and in written order: the columns de-quoted, the reference of a
\* FOREIGN KEY clause, and no reference for a clause of another type.
C8_OneConstraintPerClause ==
    op = "extractTableConstraints" =>
        \A type \in ConstraintTypes :
            SelectSeq(out.constraints, LAMBDA c : c.type = type)
            = StatedConstraints(arg.s, type)

\* the number of the constraints of the given type among cs
CountOf(cs, type) == Cardinality({k \in 1..Len(cs) : cs[k].type = type})

\* C9: extractTableConstraints returns one UNIQUE constraint for each UNIQUE
\* clause of the field list, and one INDEX constraint for each KEY or INDEX
\* clause that UNIQUE does not precede: a UNIQUE KEY clause adds no INDEX,
\* whatever white space stands between UNIQUE and KEY.
C9_UniqueKeyIsNoIndex ==
    op = "extractTableConstraints" =>
        /\ CountOf(out.constraints, "UNIQUE") = Len(ClausesOf(arg.s, "UNIQUE"))
        /\ CountOf(out.constraints, "INDEX") = Len(ClausesOf(arg.s, "INDEX"))

----------------------------------------------------------------------------
(* Properties of the errors of parseFields, parseField and extractTables   *)

\* the place among the definitions of a field list of the first that is
\* neither empty nor a table-level constraint and on which parseField throws,
\* 0 when there is none
FirstInvalidDefinition(fieldsString) ==
    With(RuleDefinitions(fieldsString), LAMBDA defs :
    With({k \in 1..Len(defs) : /\ defs[k] # <<>>
                               /\ ~isTableLevelConstraint(defs[k])
                               /\ parseField(defs[k]).err # ""}, LAMBDA invalid :
         IF invalid = {} THEN 0 ELSE Least(invalid)))

\* when a definition of the field list is invalid, parseFields returns no
\* field and throws the error of the first invalid definition, with the
\* place of that definition among the split definitions
ParseFieldsFailsFast ==
    (op = "parseFields" /\ arg.s # <<>>) =>
        With(FirstInvalidDefinition(arg.s), LAMBDA k :
             k # 0 =>
                /\ out.fields = <<>>
                /\ out.line = k
                /\ out.err = "Error parsing field: "
                             \o parseField(RuleDefinitions(arg.s)[k]).err)

\* the number among the statements of a text of the first whose field list is
\* empty or has an invalid definition, 0 when there is none
FirstInvalidTable(sql) ==
    With(OuterGroups(sql), LAMBDA groups :
    With({k \in 1..Len(groups) : \/ Trim(groups[k]) = <<>>
                                 \/ parseFields(Trim(groups[k])).err # ""},
         LAMBDA invalid : IF invalid = {} THEN 0 ELSE Least(invalid)))

\* the line of a text on which its k-th statement begins
StatementLine(sql, k) ==
    With(ExecAll(StatementHead, sql, 0)[k].start, LAMBDA start :
         Cardinality({i \in 1..(start - 1) : sql[i] = "\n"}) + 1)

\* when a table of a text that passes the gate is invalid, extractTables
\* returns no table and throws an error that names the first invalid table
\* and has the line of that table
ExtractTablesFailsFast ==
    (op = "extractTables" /\ Fresh("validateSqlInput", arg).err = "") =>
        With(FirstInvalidTable(arg.s), LAMBDA k :
             k # 0 =>
                /\ out.err # ""
                /\ out.tables = <<>>
                /\ out.table = StatementNames(arg.s)[k]
                /\ out.line = StatementLine(arg.s, k))

\* C11: parseFields and extractTables return nothing and throw for the first
\* invalid member in order: the error of parseFields has the place of the
\* failing definition among the split definitions, and the error of
\* extractTables names the first invalid table and has its line number.
C11_FirstInvalidMemberReported ==
    /\ ParseFieldsFailsFast
    /\ ExtractTablesFailsFast

\* the definitions of a field list that are neither empty nor a table-level
\* clause, in order
ColumnDefinitions(fieldsString) ==
    SelectSeq(RuleDefinitions(fieldsString), LAMBDA d : d # <<>> /\ ClauseType(d) = "")

\* C12: parseFields leaves out a table-level constraint without an error: the
\* fields it returns are those of the other definitions, in order, and when
\* it throws one of the other definitions is invalid; parseField on a
\* table-level constraint throws "Table-level constraint found where field
\* definition expected".
C12_ConstraintSkippedOrRefused ==
    /\ (op = "parseFields" /\ arg.s # <<>>) =>
          With(ColumnDefinitions(arg.s), LAMBDA defs :
               IF out.err = ""
               THEN out.fields = <<>> \o [k \in 1..Len(defs) |-> parseField(defs[k]).field]
               ELSE \E k \in 1..Len(defs) : parseField(defs[k]).err # "")
    /\ (op = "parseField" /\ ClauseType(arg.s) # "") =>
          out.err = "Table-level constraint found where field definition expected"

\* parseFields has returned one field for a list of two definitions of which
\* one is a table-level constraint
C12_ConstraintLeftOut ==
    /\ op = "parseFields"
    /\ out.err = ""
    /\ Len(out.fields) = 1
    /\ Len(RuleDefinitions(arg.s)) = 2
    /\ \E k \in 1..2 : ClauseType(RuleDefinitions(arg.s)[k]) # ""

----------------------------------------------------------------------------
(* Properties of the type mapper (MapperSpec)                              *)

\* the lowercase base name of an SQL type: its name in lower case, without
\* the white space around it and without what follows the name (a size, a
\* list of values, a modifier)
BaseName(sqlType) ==
    LET s    == Trim(ToLower(sqlType))
        ends == {i \in DOMAIN s : s[i] = "(" \/ IsSpace(s[i])}
    IN IF ends = {} THEN s ELSE SubSeq(s, 1, Least(ends) - 1)

\* the dialects that have tables of their own
OwnDialects == {"mysql", "postgresql", "sqlite"}

\* C13: when the mapper holds a custom mapping k -> T for one of the dialects
\* mysql, postgresql and sqlite, mapType of an SQL type whose lowercase base
\* name is k returns T under that dialect, whether or not the built-in table
\* of the dialect has the key k.
C13_CustomMappingWins ==
    (/\ op = "mapType"
     /\ arg.dialect \in OwnDialects
     /\ Has(CustomOf(mapper, arg.dialect), BaseName(arg.s)))
    => out = Returned(Get(CustomOf(mapper, arg.dialect), BaseName(arg.s)))

\* the keys under which the custom mappings of the calls are kept
MapperKeys == {ToLower(k) : k \in CustomKeys}

\* the built-in result, or the unresolved-type outcome, of the key k under d
BuiltIn(this, k, d) == mapType(TypeMapper(NoMappings, this.strictMode), k, d)

\* the operations that change the custom mappings
Mutators == {"addCustomMapping", "removeCustomMapping", "clearCustomMappings"}

\* what the step that has just been taken leaves for the key k under d
DecidedByStep(d, k) ==
    IF op' = "addCustomMapping" /\ arg'.dialect = d /\ ToLower(arg'.s) = k
    THEN mapType(mapper', k, d) = Returned(arg'.tsType)
    ELSE IF \/ op' = "removeCustomMapping" /\ arg'.dialect = d /\ ToLower(arg'.s) = k
            \/ op' = "clearCustomMappings" /\ arg'.dialect = d
    THEN mapType(mapper', k, d) = BuiltIn(mapper', k, d)
    ELSE \/ d = "auto" /\ arg'.dialect = "mysql"
         \/ mapType(mapper', k, d) = mapType(mapper, k, d)

\* C14: on one mapper, in every step that adds, removes or clears custom
\* mappings, for every dialect d and key k (keys compared without regard to
\* case): after addCustomMapping(d, k, T) mapType resolves k under d to T,
\* after removeCustomMapping(d, k) or clearCustomMappings(d) to the built-in
\* result or the unresolved-type outcome, and a step on another dialect or
\* key leaves the result for (d, k) as it was (a step on mysql may or may
\* not count as one on auto); so the most recent operation on (d, k)
\* decides, and a mapper on which none was made gives the built-in result.
C14_MostRecentOperationDecides ==
    [][op' \in Mutators =>
         \A d \in SQLDialect, k \in MapperKeys : DecidedByStep(d, k)]_vars

\* the mapper with the same custom mappings in lenient mode
Lenient(this) == [this EXCEPT !.strictMode = FALSE]

\* an SQL type that the mappings of the mapper do not resolve under the
\* dialect: the one for which lenient mode falls back to 'any'
Unresolved(this, sqlType, dialect) ==
    mapType(Lenient(this), sqlType, dialect) = Returned("any")

\* C15: in lenient mode mapType never throws, and it returns 'any' for a
\* type that is not resolved; in strict mode mapType never returns that
\* fallback: for a type that is not resolved it throws a TypeMappingError
\* that carries the SQL type and the dialect of the call.
C15_StrictThrowsLenientFallsBack ==
    op = "mapType" =>
        IF mapper.strictMode
        THEN Unresolved(mapper, arg.s, arg.dialect)
             => out = TypeMappingError(arg.s, arg.dialect)
        ELSE /\ out.err = ""
             /\ Unresolved(mapper, arg.s, arg.dialect) => out = Returned("any")

\* the same returned type name, or the same failure
SameOutcome(a, b) == a.err = b.err /\ a.ret = b.ret

\* the answer of the operation o for the arguments a under MySQL
UnderMySQL(o, a) ==
    CASE o = "mapType" -> mapType(mapper, a.s, "mysql")
      [] o = "getSupportedTypes" -> [types |-> getSupportedTypes(mapper, "mysql")]
      [] o = "isTypeSupported" -> [ret |-> isTypeSupported(mapper, a.s, "mysql")]
      [] o = "getDefaultMappings" -> [mappings |-> getDefaultMappings("mysql")]

\* C16: for every mapper and every SQL type, mapType under AUTO has the
\* outcome (the returned type name, or the failure) of mapType under MySQL,
\* the special cases TINYINT(1), ENUM(...) and SET(...) included, and
\* getSupportedTypes, isTypeSupported and getDefaultMappings answer for AUTO
\* what they answer for MySQL.
C16_AutoIsMySQL ==
    /\ (op = "mapType" /\ arg.dialect = "auto")
       => SameOutcome(out, UnderMySQL(op, arg))
    /\ (/\ op \in {"getSupportedTypes", "isTypeSupported", "getDefaultMappings"}
        /\ arg.dialect = "auto")
       => out = UnderMySQL(op, arg)

\* the SQL type without its white space, in lower case
Squeezed(sqlType) == SelectSeq(ToLower(sqlType), LAMBDA c : ~IsSpace(c))

\* the digits of the size of a TINYINT type, <<>> for the plain TINYINT
TinyintSize(sqlType) ==
    IF Squeezed(sqlType) = KwTinyint THEN <<>>
    ELSE SubSeq(Squeezed(sqlType), Len(KwTinyint) + 2, Len(Squeezed(sqlType)) - 1)

\* TINYINT or TINYINT(n), in any letter case and with any white space
IsTinyint(sqlType) ==
    \/ Squeezed(sqlType) = KwTinyint
    \/ /\ Len(Squeezed(sqlType)) > Len(KwTinyint) + 2
       /\ SubSeq(Squeezed(sqlType), 1, Len(KwTinyint) + 1) = KwTinyint \o <<"(">>
       /\ Squeezed(sqlType)[Len(Squeezed(sqlType))] = ")"
       /\ \A i \in DOMAIN TinyintSize(sqlType) : TinyintSize(sqlType)[i] \in Digits

\* C17: a mapper without custom mappings maps, under MySQL, TINYINT(1) to
\* boolean and the plain TINYINT and TINYINT(n) of every other size n to
\* number, whatever the letter case and the white space around the size.
C17_TinyintOneIsBoolean ==
    (/\ op = "mapType"
     /\ arg.dialect = "mysql"
     /\ CustomCount(mapper) = 0
     /\ IsTinyint(arg.s))
    => out = Returned(IF TinyintSize(arg.s) = <<"1">> THEN "boolean" ELSE "number")

\* TINYINT ( 1 ) in lower case with white space around its size was mapped
\* to boolean
C17_SpacedTinyintOne ==
    /\ op = "mapType"
    /\ arg.dialect = "mysql"
    /\ CustomCount(mapper) = 0
    /\ arg.s = <<"t","i","n","y","i","n","t"," ","("," ","1"," ",")">>
    /\ out = Returned("boolean")

----------------------------------------------------------------------------
(* Properties of the default values (FieldSpec)                            *)

\* the value is one quoted text: it begins and ends with the same quote
\* character and holds no such character in between but after a backslash
IsQuotedValue(value) ==
    /\ Len(value) >= 2
    /\ value[1] \in {"'", "\""}
    /\ value[Len(value)] = value[1]
    /\ \A i \in 2..(Len(value) - 1) : value[i] = value[1] => value[i - 1] = "\\"

\* the defaultValue that the DEFAULT clause c stands for: undefined without
\* a clause, the text between the quotes for a quoted value without a space,
\* and else the value as it is written
ExpectedDefault(c) ==
    IF ~c.has THEN [def |-> FALSE, v |-> <<>>]
    ELSE IF IsQuotedValue(c.value) /\ ~Includes(c.value, " ")
    THEN [def |-> TRUE, v |-> SubSeq(c.value, 2, Len(c.value) - 1)]
    ELSE [def |-> TRUE, v |-> c.value]

\* C18: the defaultValue of a returned field is undefined when its definition
\* has no DEFAULT clause, "NULL" for DEFAULT NULL, the empty string (which is
\* not undefined) for DEFAULT '' and DEFAULT "", the text between the quotes
\* for a quoted value without a space, and the value as it is written for a
\* quoted value with a space and for an expression.
C18_DefaultValueAsWritten ==
    \A k \in DOMAIN ReturnedFields : \A c \in DefaultCases :
        ReturnedFields[k].definition = DefaultTextOf(c)
        => ReturnedFields[k].field.defaultValue = ExpectedDefault(c)

----------------------------------------------------------------------------
(* Properties of the generated declarations (GeneratorSpec)                *)

\* the TypeScript types with the null union
NullUnions ==
    {e[2] \o " | null" :
        e \in UNION {{TYPE_MAPPINGS[d][i] : i \in DOMAIN TYPE_MAPPINGS[d]} :
                        d \in DOMAIN TYPE_MAPPINGS}}
    \cup {"any | null"}

\* the declaration carries the optional marker after the name of the field
CarriesOptional(declaration) == declaration[3] = "?"

\* the type of the declaration is a union with null
CarriesNull(declaration) == declaration[5] \in NullUnions

\* C19: the declaration generated for a field carries the optional marker
\* '?' exactly when the field has a default value (the empty string is one)
\* or the optionalFields flag is set, and '| null' exactly when the field is
\* nullable and not marked optional; no declaration carries both.
C19_OptionalOrNullNeverBoth ==
    op = "generateFieldDeclarations" =>
        \A k \in DOMAIN out.fields :
            /\ CarriesOptional(out.declarations[k])
               <=> (out.fields[k].defaultValue.def \/ out.options.optionalFields)
            /\ CarriesNull(out.declarations[k])
               <=> (out.fields[k].nullable /\ ~CarriesOptional(out.declarations[k]))
            /\ ~(CarriesOptional(out.declarations[k]) /\ CarriesNull(out.declarations[k]))

\* without the optionalFields flag, a nullable field whose default value is
\* the empty string was declared with '?' and without '| null'
C19_EmptyDefaultIsOptional ==
    /\ op = "generateFieldDeclarations"
    /\ ~out.options.optionalFields
    /\ \E k \in DOMAIN out.fields :
          /\ out.fields[k].defaultValue = [def |-> TRUE, v |-> <<>>]
          /\ out.fields[k].nullable
          /\ out.declarations[k] = <<"  ", <<"a">>, "?", ": ", "string", ";">>

----------------------------------------------------------------------------
(* Properties of the count ceilings (LimitsSpec)                           *)

\* the ceiling that the configuration sets for a count: the supplied one,
\* or the default when none is supplied
Ceiling(validationLimits, name) ==
    IF name \in DOMAIN validationLimits THEN validationLimits[name]
    ELSE DEFAULT_VALIDATION_LIMITS[name]

\* the input has more tables, or a table with more fields, than configured
OverCeilings(input, validationLimits) ==
    \/ Len(input.fieldCounts) > Ceiling(validationLimits, "maxTableCount")
    \/ \E k \in DOMAIN input.fieldCounts :
          input.fieldCounts[k] > Ceiling(validationLimits, "maxFieldCount")

\* C20: extractSchemas rejects an input that has more tables than the
\* configured maxTableCount or a table with more fields than the configured
\* maxFieldCount, and it does not reject on count grounds an input whose
\* table count and field counts are all within the configured ceilings.
C20_ConfiguredCeilingsDecide ==
    op = "extractSchemas" =>
        (out.err # "" <=> OverCeilings(arg, out.validationLimits))

----------------------------------------------------------------------------
(* Properties of the attribute clauses (AttributeSpec)                     *)

RECURSIVE Ascending(_)
\* the members of a set of numbers in ascending order
Ascending(S) ==
    IF S = {} THEN <<>>
    ELSE With(CHOOSE x \in S : \A y \in S : x <= y, LAMBDA x :
              <<x>> \o Ascending(S \ {x}))

\* the clauses of an ordering in the order of AttributeClauses
SameClausesInOrder(o) == Ascending({o[k] : k \in DOMAIN o})

\* two outcomes of parseField with the same nullable, defaultValue, comment
\* and constraints
SameAttributes(a, b) ==
    /\ a.err = b.err
    /\ a.field.nullable = b.field.nullable
    /\ a.field.defaultValue = b.field.defaultValue
    /\ a.field.comment = b.field.comment
    /\ a.field.constraints = b.field.constraints

\* C21: for every subset of the attribute clauses NOT NULL, PRIMARY KEY,
\* UNIQUE, AUTO_INCREMENT, REFERENCES t(c), CHECK (p), DEFAULT v and
\* COMMENT 's' written after the type, parseField returns the same nullable,
\* defaultValue, comment and constraints for every ordering of the subset:
\* those it returns for the subset written in one fixed order.
C21_OrderInsensitive ==
    op = "parseField" /\ "clauses" \in DOMAIN arg =>
        SameAttributes(out, parseField(DefinitionOf(SameClausesInOrder(arg.clauses))))

----------------------------------------------------------------------------
(* Properties of the types (TypeSpec)                                      *)

\* C22: for a definition written with a compound type, such as
\* DECIMAL(10,2) UNSIGNED, DOUBLE PRECISION or TEXT[], parseField returns
\* the whole type text as type, and the remainder from which it extracts
\* the attributes holds the attribute clauses only, no word of the type.
C22_CompoundTypeWhole ==
    op = "parseField" /\ "type" \in DOMAIN arg =>
        /\ out.err = ""
        /\ out.field.type = arg.type
        /\ RemainderOf(arg.s) = ClausesText(arg.clauses)

----------------------------------------------------------------------------
(* Properties of the classification of definitions (KeywordSpec)           *)

\* the names of the columns among the definitions, in their order
ColumnNamesOf(parts) ==
    With(SelectSeq(parts, LAMBDA p : p.column), LAMBDA columns :
         <<>> \o [k \in 1..Len(columns) |-> columns[k].name])

\* the names of the fields, in their order
FieldNamesOf(fields) == <<>> \o [k \in 1..Len(fields) |-> fields[k].name]

\* C23: a definition is treated as a table-level constraint only when its
\* leading keyword, as a whole word, is PRIMARY KEY, FOREIGN KEY, UNIQUE,
\* INDEX, KEY, CONSTRAINT or CHECK: parseFields returns the columns of the
\* text and only them, also those whose names begin with the letters of
\* such a keyword (key_id, index_no, unique_code, check_sum,
\* constraint_type), and parseField accepts such a column and refuses a
\* table-level constraint.
C23_LeadingKeywordDecides ==
    /\ (op = "parseFields" /\ "parts" \in DOMAIN arg) =>
          /\ out.err = ""
          /\ FieldNamesOf(out.fields) = ColumnNamesOf(arg.parts)
    /\ (op = "parseField" /\ "parts" \in DOMAIN arg /\ Len(arg.parts) = 1) =>
          IF arg.parts[1].column
          THEN out.err = "" /\ out.field.name = arg.parts[1].name
          ELSE out.err = "Table-level constraint found where field definition expected"

----------------------------------------------------------------------------
(* Properties of the end of a default value (DefaultSpec)                  *)

\* the defaultValue that a DEFAULT value and an ON UPDATE clause stand for:
\* the value as it is written (without its quotes when it is one quoted text
\* without a blank), followed by ' ON UPDATE <value>' when there is such a
\* clause
StoppedDefault(value, onUpdate) ==
    IF onUpdate.text # <<>>
    THEN value \o <<" ","O","N"," ","U","P","D","A","T","E"," ">> \o onUpdate.value
    ELSE IF IsQuotedValue(value) /\ ~Includes(value, " ")
    THEN SubSeq(value, 2, Len(value) - 1)
    ELSE value

\* C24: the defaultValue is the text after DEFAULT up to, and without, the
\* next top-level COMMENT, NOT NULL, NULL, PRIMARY KEY, UNIQUE,
\* AUTO_INCREMENT, comma or the end of the text; a quoted text and a balanced
\* parenthesised expression or call are kept whole also when they hold
\* blanks, commas or those keywords; and an ON UPDATE clause after the value
\* is appended as ' ON UPDATE <value>'.
C24_DefaultStopsAtClause ==
    op = "parseField" /\ "onUpdate" \in DOMAIN arg =>
        /\ out.err = ""
        /\ out.field.defaultValue =
              [def |-> TRUE, v |-> StoppedDefault(arg.value, arg.onUpdate)]

----------------------------------------------------------------------------
(* Properties of the line numbers (LineSpec)                               *)

\* the places among the parts of those that are statements, in their order
StatementParts(ps) == SelectSeq([k \in DOMAIN ps |-> k], LAMBDA k : ps[k].name # <<>>)

RECURSIVE LinesOf(_, _)
\* the number of lines of the first n parts
LinesOf(ps, n) == IF n = 0 THEN 0 ELSE LinesOf(ps, n - 1) + ps[n].lines

\* one plus the number of line ends of the text before the table name of its
\* k-th part
NameLine(ps, k) == 1 + LinesOf(ps, k - 1) + ps[k].before

\* C25: for every definition that parse returns, lineNumber is one plus the
\* number of newline characters of the original text before the table name
\* of that same statement, also when the text of the name occurs earlier in
\* the text: in a comment, in an earlier statement or within another
\* identifier.
C25_LineOfOwnStatement ==
    (op = "parse" /\ "parts" \in DOMAIN arg /\ out.err = "") =>
        With(StatementParts(arg.parts), LAMBDA at :
             /\ Len(out.tables) = Len(at)
             /\ \A k \in DOMAIN at :
                   /\ out.tables[k].name = arg.parts[at[k]].name
                   /\ out.tables[k].lineNumber = NameLine(arg.parts, at[k]))

----------------------------------------------------------------------------
(* Properties of the detection of statements (Spec)                        *)

\* parse returns at least one table definition for the argument
ParseReturnsTables(a) ==
    With(Fresh("parse", a), LAMBDA r : r.err = "" /\ Len(r.tables) >= 1)

\* C26: hasCreateTableStatements(sql) returns true exactly when parse(sql)
\* returns at least one table definition; it returns false, and does not
\* throw, for every input on which parse fails.
C26_DetectsAsParse ==
    op = "hasCreateTableStatements" => (out.ret <=> ParseReturnsTables(arg))

----------------------------------------------------------------------------
(* Properties of the objects of the type mapper (FrameSpec)                *)

\* the SQL types whose mapType results are compared
MappedTypes == { <<"U","U","I","D">>, <<"I","N","T">> }

\* the results of mapType of an instance for a dialect
ResultsOf(h, instance, dialect) ==
    [sqlType \in MappedTypes |-> mapType(ThisOf(h, instance), sqlType, dialect)]

\* a customMappings object by its contents
ContentsOf(h, object) == [d \in DOMAIN h.objects[object] |-> h.tables[h.objects[object][d]]]

\* the built-in tables are the same in the heaps h and g
SameDefaults(h, g) ==
    \A d \in DOMAIN TYPE_MAPPINGS : getDefaultMappingsOf(g, d) = getDefaultMappingsOf(h, d)

\* the results of the instance for the dialects other than dialect are the
\* same in the heaps h and g
SameOtherDialects(h, g, instance, dialect) ==
    \A d \in DOMAIN TYPE_MAPPINGS \ {dialect} :
        ResultsOf(g, instance, d) = ResultsOf(h, instance, d)

\* the results of the other instances are the same in the heaps h and g
SameOtherInstances(h, g, instance) ==
    \A other \in DOMAIN h.instances \ {instance} : \A d \in DOMAIN TYPE_MAPPINGS :
        ResultsOf(g, other, d) = ResultsOf(h, other, d)

\* the objects that the caller passed have the same contents in the heaps
SamePassed(h, g) == \A object \in h.passed : ContentsOf(g, object) = ContentsOf(h, object)

\* the heap g is what a call of a mutating method of the instance for the
\* dialect makes of the heap h
MutatedBy(h, g, instance, dialect) ==
    \/ \E sqlType \in SharedKeys :
          \/ g = addCustomMappingInPlace(h, instance, dialect, sqlType, "Custom")
          \/ g = removeCustomMappingInPlace(h, instance, dialect, sqlType)
    \/ g = clearCustomMappingsInPlace(h, instance, dialect)

\* C27: addCustomMapping, removeCustomMapping and clearCustomMappings of an
\* instance for a dialect change only the custom table of that instance for
\* that dialect: the built-in tables (getDefaultMappings), the mapType
\* results of the instance for the other dialects, the mapType results of
\* every other instance and the customMappings objects that the caller
\* passed to a constructor are as they were before the call.
C27_OnlyOwnTableChanges ==
    [][op' \in Mutators =>
          \A instance \in DOMAIN heap.instances, dialect \in DOMAIN TYPE_MAPPINGS :
              MutatedBy(heap, heap', instance, dialect) =>
                  /\ SameDefaults(heap, heap')
                  /\ SameOtherDialects(heap, heap', instance, dialect)
                  /\ SameOtherInstances(heap, heap', instance)
                  /\ SamePassed(heap, heap')]_vars

----------------------------------------------------------------------------
\* C28

\* the type as handleSpecialCases receives it
CleanType(sqlType) == Trim(ToLower(sqlType))

\* the type ends in the brackets of an array
IsArrayType(sqlType) ==
    /\ Len(CleanType(sqlType)) >= 2
    /\ SubSeq(CleanType(sqlType), Len(CleanType(sqlType)) - 1,
              Len(CleanType(sqlType))) = KwBrackets

\* the element type X of the type X[]
ElementType(sqlType) ==
    Trim(SubSeq(CleanType(sqlType), 1, Len(CleanType(sqlType)) - 2))

\* the mapping of the element type followed by '[]', or its failure
ArrayOf(elementMapping) ==
    IF elementMapping.err # "" THEN elementMapping
    ELSE Returned(elementMapping.ret \o "[]")

\* C28: mapType is total: for every SQL type and every dialect it ends,
\* either returning a type name or failing with TypeMappingError; under
\* PostgreSQL a type X[] maps to the mapping of X followed by '[]'.
C28_MapTypeTotal ==
    op = "mapType" =>
        /\ out.err \in {"", "TypeMappingError"}
        /\ out.err = "" => out.ret # ""
        /\ arg.dialect = "postgresql" /\ IsArrayType(arg.s) =>
               out = ArrayOf(mapType(mapper, ElementType(arg.s), "postgresql"))

----------------------------------------------------------------------------
(* Properties of the quoted texts (QuotingSpec)                            *)

\* the field of the same definition with a quoted text that holds no keyword
InertField(a) ==
    parseField(QuotingDefinitionOf(a.before, a.clause, a.quote, <<"x">>)).field

\* the defaultValue of a quoted DEFAULT value: the text between the quotes,
\* or the quoted text as it is written
QuotedDefaults(a) ==
    { [def |-> TRUE, v |-> a.words],
      [def |-> TRUE, v |-> <<a.quote>> \o a.words \o <<a.quote>>] }

\* C29: the words inside the COMMENT string or inside a quoted DEFAULT value
\* of a field definition never change nullable, never add a constraint and
\* never start a DEFAULT value: the field has the nullable and the
\* constraints of the same definition with a quoted text without keywords,
\* no defaultValue from a COMMENT string, and the quoted text as its
\* defaultValue from a DEFAULT clause.
C29_QuotedTextInert ==
    op = "parseField" /\ "words" \in DOMAIN arg =>
        /\ out.err = ""
        /\ out.field.nullable = InertField(arg).nullable
        /\ out.field.constraints = InertField(arg).constraints
        /\ IF arg.clause = <<"C","O","M","M","E","N","T">>
           THEN ~out.field.defaultValue.def
           ELSE out.field.defaultValue \in QuotedDefaults(arg)

----------------------------------------------------------------------------
(* Properties of the two scanners (ScanSpec)                               *)

\* the state of the scan of hasUnmatchedDelimiters after i characters
DelimAt(sql, i) == ScanDelimiters(sql, 1, i, DelimStart)

\* the state of the scan of splitFieldDefinitions after i characters
SplitAt(fieldsString, i) == SplitScan(fieldsString, 1, i, SplitStart)

\* the quote that a scan of hasUnmatchedDelimiters is in, "" outside quotes
QuoteOf(d) ==
    IF d.sq THEN "'" ELSE IF d.dq THEN "\"" ELSE IF d.bq THEN BQ ELSE ""

\* the two scans are in the same quote and at the same depth
SameScanState(d, st) ==
    /\ QuoteOf(d) = st.quoteChar
    /\ st.inQuotes = (QuoteOf(d) # "")
    /\ d.paren = st.parenDepth

\* C30: on a text that hasUnmatchedDelimiters accepts, the scan of
\* splitFieldDefinitions is after every character in the same quote and at
\* the same parenthesis depth as the scan of hasUnmatchedDelimiters; so it
\* never reaches a negative depth and ends at depth 0 outside every quote.
C30_ScannersAgree ==
    op = "splitFieldDefinitions" /\ ~hasUnmatchedDelimiters(arg.s) =>
        /\ \A i \in 0..Len(arg.s) :
              /\ SameScanState(DelimAt(arg.s, i), SplitAt(arg.s, i))
              /\ SplitAt(arg.s, i).parenDepth >= 0
        /\ SplitAt(arg.s, Len(arg.s)).parenDepth = 0
        /\ ~SplitAt(arg.s, Len(arg.s)).inQuotes

====
